---- MODULE Spec2Model ----
(***************************************************************************)
(* Model of the Unified AI Frontend: the /api/chat proxy route, the chat   *)
(* view (ChatInterface) with its response normalizer, and the event        *)
(* visualization view (DataVisualization) with its three data mappers.     *)
(***************************************************************************)
EXTENDS Integers, Sequences, FiniteSets, TLC

(***************************************************************************)
(* JavaScript values.  A value is a record tagged with its type; a string  *)
(* is a sequence of tokens whose concatenation is the text, so that trim,  *)
(* replace and split act on the tokens of input-derived strings.           *)
(***************************************************************************)
Undef == [t |-> "undefined"]
Null == [t |-> "null"]
NaN == [t |-> "NaN"]
Num(n) == [t |-> "number", v |-> n]
Str(s) == [t |-> "string", v |-> s]
Bool(b) == [t |-> "boolean", v |-> b]
Arr(s) == [t |-> "array", v |-> s]
Obj(r) == [t |-> "object", v |-> r]

\* JavaScript truthiness (ToBoolean)
Truthy(x) ==
  CASE x.t = "undefined" -> FALSE
    [] x.t = "null" -> FALSE
    [] x.t = "NaN" -> FALSE
    [] x.t = "number" -> x.v # 0
    [] x.t = "string" -> x.v # << >>
    [] x.t = "boolean" -> x.v
    [] OTHER -> TRUE

\* a || b
Or(a, b) == IF Truthy(a) THEN a ELSE b

\* The tokens a template literal `${x}` inserts for x (ToString); numbers
\* below 1000 print the same under toString and toLocaleString.
Text(x) ==
  CASE x.t = "undefined" -> <<"undefined">>
    [] x.t = "null" -> <<"null">>
    [] x.t = "NaN" -> <<"NaN">>
    [] x.t = "number" -> <<ToString(x.v)>>
    [] x.t = "string" -> x.v
    [] x.t = "boolean" -> IF x.v THEN <<"true">> ELSE <<"false">>
    [] x.t = "array" -> <<"[array]">>
    [] OTHER -> <<"[object Object]">>

IsBlank(c) == c \in {" ", "\n", "\t"}

RECURSIVE TrimStart(_)
TrimStart(s) ==
  IF s = << >> THEN s
  ELSE IF IsBlank(Head(s)) THEN TrimStart(Tail(s)) ELSE s

RECURSIVE TrimEnd(_)
TrimEnd(s) ==
  IF s = << >> THEN s
  ELSE IF IsBlank(s[Len(s)]) THEN TrimEnd(SubSeq(s, 1, Len(s) - 1)) ELSE s

\* String.prototype.trim on the tokens of a string
Trim(s) == TrimEnd(TrimStart(s))

\* s.replace(/_/g, ' ')
ReplaceUnderscores(s) == [i \in DOMAIN s |-> IF s[i] = "_" THEN " " ELSE s[i]]

(***************************************************************************)
(* The /api/chat route (POST).                                             *)
(***************************************************************************)
VARIABLES
  rt_pc,          \* "idle" | "fetching" | "responded"
  rt_body,        \* the request body as sent by the caller
  rt_forwarded,   \* the payloads sent to the backend, in order
  rt_backend,     \* the backend's answer, once it has answered
  rt_response     \* the route's response [status, body]

rt_vars == <<rt_pc, rt_body, rt_forwarded, rt_backend, rt_response>>

\* A body whose text is not JSON: request.json() / response.json() rejects.
NotJson == [t |-> "notjson"]

\* Request bodies: JSON objects {message, conversation_id, userId, ...rest},
\* JSON values that are no object, and text that is no JSON.
MessageValues ==
  { Undef, Null, Str(<< >>), Str(<<" ">>), Str(<<"h", "i">>),
    Str(<<" ", "h", "i", " ">>), Num(0), Num(42), Bool(TRUE),
    Arr(<<Str(<<"h">>)>>) }

RequestBodies ==
  { Obj([message |-> m, conversation_id |-> c, userId |-> Str(<<"ui-user-1">>),
         rest |-> r]) :
      m \in MessageValues, c \in {Null, Str(<<"wf_1">>)},
      r \in {<< >>, <<"organizationId">>} }
  \cup {NotJson, Null, Num(7), Str(<<"h", "i">>)}

\* Backend answers: an HTTP status and a body that is JSON or not.
BackendStatuses == {200, 201, 400, 404, 500, 503}

BackendBodies ==
  { Obj([success |-> Bool(TRUE), message |-> Str(<<"ok">>), error |-> Undef]),
    Obj([success |-> Bool(FALSE), message |-> Undef, error |-> Str(<<"boom">>)]),
    Obj([success |-> Undef, message |-> Undef, error |-> Undef]),
    Null, NotJson }

\* Response.ok
Ok(status) == status >= 200 /\ status <= 299

\* Property read body.k of the destructuring at the head of POST:
\* a primitive has no such property, null throws (see POST_receive).
Field(body, k) == IF body.t = "object" THEN body.v[k] ELSE Undef

InternalError(detail) ==
  [status |-> 500,
   body |-> [success |-> FALSE, error |-> <<"Internal server error">>,
             details |-> detail]]

\* POST up to the backend fetch: request.json(), the destructuring, the
\* validation of message and the forwarded payload.
POST_receive ==
  /\ rt_pc = "idle"
  /\ \E body \in RequestBodies :
       /\ rt_body' = body
       /\ IF body = NotJson
          THEN \* request.json() rejects: the catch block answers
               /\ rt_response' = InternalError(<<"Unexpected token">>)
               /\ rt_pc' = "responded"
               /\ UNCHANGED rt_forwarded
          ELSE IF body = Null
          THEN \* destructuring null throws a TypeError: the catch block answers
               /\ rt_response' = InternalError(<<"Cannot destructure">>)
               /\ rt_pc' = "responded"
               /\ UNCHANGED rt_forwarded
          ELSE LET message == Field(body, "message") IN
               IF ~Truthy(message) \/ message.t # "string"
               THEN /\ rt_response' =
                         [status |-> 400,
                          body |-> [success |-> FALSE,
                                    error |-> <<"Message is required">>]]
                    /\ rt_pc' = "responded"
                    /\ UNCHANGED rt_forwarded
               ELSE /\ rt_forwarded' = Append(rt_forwarded,
                         [message |-> Str(Trim(message.v)),
                          conversation_id |-> Field(body, "conversation_id"),
                          userId |-> Field(body, "userId"),
                          context |-> Field(body, "rest")])
                    /\ rt_pc' = "fetching"
                    /\ UNCHANGED rt_response
  /\ UNCHANGED rt_backend

\* The status NextResponse.json(data) gives when no init is passed.
DefaultStatus == 200

\* The success return of POST: NextResponse.json(backendData)
RelaySuccess(answer) == [status |-> DefaultStatus, body |-> answer.body]

\* POST after the backend has answered: backendResponse.json(), the
\* !backendResponse.ok envelope, the success relay.
POST_backendAnswer ==
  /\ rt_pc = "fetching"
  /\ \E st \in BackendStatuses, b \in BackendBodies :
       LET answer == [status |-> st, body |-> b] IN
       /\ rt_backend' = answer
       /\ rt_response' =
            IF b = NotJson
            THEN InternalError(<<"Unexpected token">>)
            ELSE IF ~Ok(st)
            THEN IF b = Null
                 THEN \* backendData.error on null throws
                      InternalError(<<"Cannot read properties of null">>)
                 ELSE [status |-> st,
                       body |-> [success |-> FALSE,
                                 error |-> <<"Backend error: ">>
                                   \o Text(Or(b.v.error, Str(<<"Unknown error">>))),
                                 details |-> b]]
            ELSE RelaySuccess(answer)
  /\ rt_pc' = "responded"
  /\ UNCHANGED <<rt_body, rt_forwarded>>

\* The backend fetch rejects (connection refused, DNS, reset).
POST_fetchFails ==
  /\ rt_pc = "fetching"
  /\ rt_backend' = [status |-> 0, body |-> NotJson]
  /\ rt_response' = InternalError(<<"fetch failed">>)
  /\ rt_pc' = "responded"
  /\ UNCHANGED <<rt_body, rt_forwarded>>

rt_Init ==
  /\ rt_pc = "idle"
  /\ rt_body = Undef
  /\ rt_forwarded = << >>
  /\ rt_backend = Undef
  /\ rt_response = Undef

(***************************************************************************)
(* The response normalizer of ChatInterface: the chain that turns one      *)
(* backend payload `data` into responseContent.  Emoji of the source       *)
(* literals are written as ASCII tags ([chart], [trend], [x]).             *)
(***************************************************************************)

\* A thrown exception, as the value of an evaluation
Throw(msg) == [t |-> "throw", v |-> msg]

\* a + b on numbers (undefined or NaN operands give NaN)
Add(a, b) == IF a.t = "number" /\ b.t = "number" THEN Num(a.v + b.v) ELSE NaN

\* x.toLocaleString() is a TypeError on undefined and null
CanStringify(x) == x.t \notin {"undefined", "null"}

\* new Date(x).toLocaleDateString() and new Date(x).toLocaleString()
DateText(x) == IF x.t \in {"number", "string"} THEN <<"date(">> \o Text(x) \o <<")">>
               ELSE <<"Invalid Date">>

DateTimeText(x) == IF x.t \in {"number", "string"}
                   THEN <<"datetime(">> \o Text(x) \o <<")">>
                   ELSE <<"Invalid Date">>

\* items.reduce((sum, item) => sum + item[k], 0)
RECURSIVE SumField(_, _)
SumField(items, k) ==
  IF items = << >> THEN Num(0)
  ELSE Add(SumField(SubSeq(items, 1, Len(items) - 1), k), items[Len(items)].v[k])

\* The eventGroups object of the trends branch: one group per event_name,
\* in order of first occurrence, with the summed count and the hours seen.
RECURSIVE GroupTrends(_)
GroupTrends(trends) ==
  IF trends = << >> THEN << >>
  ELSE LET before == GroupTrends(SubSeq(trends, 1, Len(trends) - 1))
           trend == trends[Len(trends)].v
           at == {i \in DOMAIN before : before[i].name = trend.event_name}
       IN IF at = {}
          THEN Append(before, [name |-> trend.event_name,
                               source |-> trend.event_source,
                               count |-> Add(Num(0), trend.event_count),
                               hours |-> 1])
          ELSE LET i == CHOOSE j \in at : TRUE IN
               [before EXCEPT ![i].count = Add(@, trend.event_count),
                              ![i].hours = @ + 1]

RECURSIVE TrendLines(_, _)
TrendLines(groups, index) ==
  IF index > Len(groups) THEN << >>
  ELSE <<ToString(index), ". **">> \o Text(groups[index].name) \o <<"** (">>
         \o Text(groups[index].source) \o <<")\n">>
         \o <<"   - Total Events: ">> \o Text(groups[index].count) \o <<"\n">>
         \o <<"   - Data Points: ", ToString(groups[index].hours), "\n\n">>
         \o TrendLines(groups, index + 1)

RECURSIVE AnalyticsLines(_, _)
AnalyticsLines(analytics, index) ==
  IF index > Len(analytics) THEN << >>
  ELSE LET event == analytics[index].v IN
       <<ToString(index), ". **">> \o Text(event.event_name) \o <<"** (">>
         \o Text(event.event_source) \o <<")\n">>
         \o <<"   - Total Events: ">> \o Text(event.total_events) \o <<"\n">>
         \o <<"   - Unique Contacts: ">> \o Text(event.unique_contacts) \o <<"\n">>
         \o <<"   - Date Range: ">> \o DateText(event.first_event) \o <<" - ">>
         \o DateText(event.last_event) \o <<"\n\n">>
         \o AnalyticsLines(analytics, index + 1)

\* toUpperCase() of the first letter of a word, for the words of the model
Upper(w) ==
  CASE w = "tool" -> "Tool" [] w = "summary" -> "Summary"
    [] w = "organization" -> "Organization" [] w = "id" -> "Id"
    [] w = "workflow" -> "Workflow" [] w = "timeframe" -> "Timeframe"
    [] w = "total" -> "Total" [] w = "logs" -> "Logs"
    [] w = "unique" -> "Unique" [] w = "contacts" -> "Contacts"
    [] w = "formattedMessage" -> "FormattedMessage" [] w = "trends" -> "Trends"
    [] w = "analytics" -> "Analytics" [] w = "answer" -> "Answer"
    [] w = "rows" -> "Rows" [] w = "event" -> "Event" [] w = "types" -> "Types"
    [] w = "analyticsData" -> "AnalyticsData" [] w = "trendsData" -> "TrendsData"
    [] w = "processingTimeHuman" -> "ProcessingTimeHuman"
    [] w = "execution" -> "Execution" [] w = "type" -> "Type"
    [] w = "entry" -> "Entry" [] w = "events" -> "Events"
    [] w = "get" -> "Get" [] w = "statistics" -> "Statistics"
    [] w = "path" -> "Path" [] w = "analysis" -> "Analysis"
    [] OTHER -> w

IsWord(w) == w \notin {" ", "_", "\n", "\t"}

\* s.replace(/_/g, ' ').replace(/\b\w/g, l => l.toUpperCase()) on a string
\* whose tokens are words and separators
TitleCase(s) ==
  LET r == ReplaceUnderscores(s) IN
  [i \in DOMAIN r |-> IF IsWord(r[i]) THEN Upper(r[i]) ELSE r[i]]

\* The keys of results, in the order Object.entries walks them, each with
\* the tokens of its name
ResultsKeys ==
  << <<"tool", <<"tool">> >>,
     <<"summary", <<"summary">> >>,
     <<"organization_id", <<"organization", "_", "id">> >>,
     <<"workflow_id", <<"workflow", "_", "id">> >>,
     <<"timeframe", <<"timeframe">> >>,
     <<"total_logs", <<"total", "_", "logs">> >>,
     <<"unique_contacts", <<"unique", "_", "contacts">> >>,
     <<"formattedMessage", <<"formattedMessage">> >>,
     <<"trends", <<"trends">> >>,
     <<"analytics", <<"analytics">> >>,
     <<"answer", <<"answer">> >>,
     <<"total_rows", <<"total", "_", "rows">> >>,
     <<"total_event_types", <<"total", "_", "event", "_", "types">> >>,
     <<"analyticsData", <<"analyticsData">> >>,
     <<"trendsData", <<"trendsData">> >>,
     <<"processingTimeHuman", <<"processingTimeHuman">> >>,
     <<"execution_type", <<"execution", "_", "type">> >>,
     <<"entry_events", <<"entry", "_", "events">> >> >>

\* The bullet lines of the generic summary branch over Object.entries(results)
RECURSIVE SummaryEntries(_, _)
SummaryEntries(results, i) ==
  IF i > Len(ResultsKeys) THEN << >>
  ELSE LET key == ResultsKeys[i][1]
           value == results[key]
       IN (IF key \notin {"tool", "summary"}
              /\ value.t \in {"number", "string", "boolean"}
           THEN <<"- ">> \o TitleCase(ResultsKeys[i][2]) \o <<": ">>
                  \o Text(value) \o <<"\n">>
           ELSE << >>)
          \o SummaryEntries(results, i + 1)

\* The raw_data bullets of results.analyticsData in the answer branch
RECURSIVE RawDataLines(_)
RawDataLines(items) ==
  IF items = << >> THEN << >>
  ELSE (IF Truthy(Head(items).v.raw_data)
        THEN <<"- ">> \o Text(Head(items).v.raw_data) \o <<"\n">> ELSE << >>)
       \o RawDataLines(Tail(items))

\* x?.toLocaleString() || 0, as inserted in a template literal
LocaleOrZero(x) ==
  IF ~CanStringify(x) \/ Text(x) = << >> THEN <<"0">> ELSE Text(x)

\* `label${x}\n` when x !== undefined, else nothing
IfDefined(label, x) ==
  IF x # Undef THEN <<label>> \o Text(x) \o <<"\n">> ELSE << >>

get_event_trends == <<"get", "_", "event", "_", "trends">>
get_event_analytics == <<"get", "_", "event", "_", "analytics">>
get_workflow_execution_statistics ==
  <<"get", "_", "workflow", "_", "execution", "_", "statistics">>

\* The conditions of the chain, in the order the code tests them
MatchFormatted(data) ==
  Truthy(data.results) /\ Truthy(Field(data.results, "formattedMessage"))

MatchTrends(data) ==
  /\ data.tool_executed = Str(get_event_trends)
  /\ Truthy(data.results) /\ Truthy(Field(data.results, "trends"))

MatchAnalytics(data) ==
  /\ data.tool_executed = Str(get_event_analytics)
  /\ Truthy(data.results) /\ Truthy(Field(data.results, "analytics"))

MatchAnswer(data) ==
  /\ Truthy(data.results) /\ Truthy(Field(data.results, "answer"))
  /\ Truthy(Field(Field(data.results, "answer"), "summary"))

MatchWorkflowStats(data) ==
  data.tool_executed = Str(get_workflow_execution_statistics) /\ Truthy(data.results)

MatchSummary(data) ==
  Truthy(data.results) /\ Truthy(Field(data.results, "summary"))

\* The body of each branch: the responseContent it builds, or what it throws
TrendsContent(data) ==
  LET trends == Field(data.results, "trends") IN
  IF trends.t # "array" THEN Throw(<<"trends.forEach is not a function">>)
  ELSE Str(<<"[trend] **Event Trends**\n\n">> \o Text(data.message) \o <<"\n\n">>
        \o <<"**Summary:**\n">>
        \o <<"- Organization ID: ">> \o Text(Field(data.results, "organization_id"))
        \o <<"\n", "- Timeframe: ">> \o Text(Field(data.results, "timeframe"))
        \o <<"\n", "- Total Data Points: ">> \o Text(Field(data.results, "total_rows"))
        \o <<"\n\n", "**Event Breakdown:**\n">>
        \o TrendLines(GroupTrends(trends.v), 1)
        \o <<"*Analysis generated: ">> \o DateTimeText(data.timestamp) \o <<"*">>)

AnalyticsContent(data) ==
  LET analytics == Field(data.results, "analytics") IN
  IF analytics.t # "array" THEN Throw(<<"analytics.reduce is not a function">>)
  ELSE IF \E i \in DOMAIN analytics.v :
            ~CanStringify(analytics.v[i].v.total_events)
            \/ ~CanStringify(analytics.v[i].v.unique_contacts)
  THEN Throw(<<"Cannot read properties of undefined (reading 'toLocaleString')">>)
  ELSE Str(<<"[chart] **Event Analytics Results**\n\n">> \o Text(data.message)
        \o <<"\n\n", "**Summary:**\n">>
        \o <<"- Organization ID: ">> \o Text(Field(data.results, "organization_id"))
        \o <<"\n", "- Timeframe: ">> \o Text(Field(data.results, "timeframe"))
        \o <<"\n", "- Total Event Types: ">>
        \o Text(Field(data.results, "total_event_types"))
        \o <<"\n", "- Total Events: ">> \o Text(SumField(analytics.v, "total_events"))
        \o <<"\n", "- Total Unique Contacts: ">>
        \o Text(SumField(analytics.v, "unique_contacts"))
        \o <<"\n\n", "**Event Breakdown:**\n">>
        \o AnalyticsLines(analytics.v, 1)
        \o <<"*Analysis generated: ">> \o DateTimeText(data.timestamp) \o <<"*">>)

AnswerContent(data) ==
  LET answer == Field(data.results, "answer")
      stats == Field(answer, "statistics")
      analyticsData == Field(data.results, "analyticsData")
      trendsData == Field(data.results, "trendsData")
      time == Field(data.results, "processingTimeHuman")
  IN Str(Text(Field(answer, "summary"))
      \o (IF Truthy(stats)
          THEN <<"\n\n**Statistics:**\n">>
                 \o IfDefined("- Total Events: ", Field(stats, "total_events"))
                 \o IfDefined("- Unique Event Types: ", Field(stats, "unique_event_types"))
                 \o IfDefined("- Unique Sources: ", Field(stats, "unique_sources"))
                 \o IfDefined("- Data Points: ", Field(stats, "data_points"))
          ELSE << >>)
      \o (IF analyticsData.t = "array" /\ Len(analyticsData.v) > 0
          THEN <<"\n\n**Event Types Found:**\n">> \o RawDataLines(analyticsData.v)
          ELSE << >>)
      \o (IF trendsData.t = "array" /\ Len(trendsData.v) > 0
          THEN <<"\n\n**Trend Data Points:** ", ToString(Len(trendsData.v)), " entries">>
          ELSE << >>)
      \o (IF Truthy(time)
          THEN <<"\n\n*Processing time: ">> \o Text(time) \o <<"*">> ELSE << >>))

WorkflowStatsContent(data) ==
  LET results == data.results IN
  Str(<<"[chart] **Workflow Execution Statistics**\n\n">> \o Text(data.message)
      \o <<"\n\n", "**Details:**\n">>
      \o <<"- Organization ID: ">> \o Text(Field(results, "organization_id"))
      \o <<"\n", "- Workflow ID: ">> \o Text(Field(results, "workflow_id")) \o <<"\n">>
      \o (IF Truthy(Field(results, "execution_type"))
          THEN <<"- Execution Type: ">> \o Text(Field(results, "execution_type")) \o <<"\n">>
          ELSE << >>)
      \o (IF Truthy(Field(results, "timeframe"))
          THEN <<"- Timeframe: ">> \o Text(Field(results, "timeframe")) \o <<"\n">>
          ELSE << >>)
      \o <<"\n**Results:**\n">>
      \o <<"- Total Logs: ">> \o LocaleOrZero(Field(results, "total_logs")) \o <<"\n">>
      \o <<"- Unique Contacts: ">> \o LocaleOrZero(Field(results, "unique_contacts"))
      \o <<"\n">>
      \o (IF Field(results, "entry_events") # Undef
          THEN <<"- Entry Events: ">> \o LocaleOrZero(Field(results, "entry_events"))
                 \o <<"\n">>
          ELSE << >>)
      \o (IF Truthy(Field(results, "summary"))
          THEN <<"\n**Summary:** ">> \o Text(Field(results, "summary")) ELSE << >>)
      \o <<"\n\n*Analysis generated: ">> \o DateTimeText(data.timestamp) \o <<"*">>)

SummaryContent(data) ==
  IF Truthy(data.tool_executed) /\ data.tool_executed.t # "string"
  THEN Throw(<<"tool_executed.replace is not a function">>)
  ELSE Str(<<"[chart] **">>
        \o (IF Truthy(data.tool_executed) THEN TitleCase(data.tool_executed.v)
            ELSE <<"Analysis">>)
        \o <<" Results**\n\n">> \o Text(data.message) \o <<"\n\n">>
        \o <<"**Summary:** ">> \o Text(Field(data.results, "summary")) \o <<"\n\n">>
        \o (IF data.results.t = "object" THEN SummaryEntries(data.results.v, 1)
            ELSE << >>)
        \o <<"\n*Analysis generated: ">> \o DateTimeText(data.timestamp) \o <<"*">>)

\* The fallback written as a template string, which spells undefined out
FallbackContent_serialized(data) ==
  Str(Text(Or(Or(data.result, data.response), data.message)))

FallbackContent(data) == Or(Or(data.result, data.response), data.message)

\* An error branch that shows a formattedMessage when the payload has one
ErrorContent_formatted(data) ==
  IF MatchFormatted(data) THEN Field(data.results, "formattedMessage")
  ELSE Str(<<"[x] **Error**: ">> \o Text(data.error))

ErrorContent(data) == Str(<<"[x] **Error**: ">> \o Text(data.error))

\* The chain with the generic summary branch tested first
responseContent_summaryFirst(data) ==
  IF Truthy(data.success)
  THEN IF MatchSummary(data) THEN SummaryContent(data)
       ELSE IF MatchFormatted(data) THEN Field(data.results, "formattedMessage")
       ELSE IF MatchTrends(data) THEN TrendsContent(data)
       ELSE IF MatchAnalytics(data) THEN AnalyticsContent(data)
       ELSE IF MatchAnswer(data) THEN AnswerContent(data)
       ELSE IF MatchWorkflowStats(data) THEN WorkflowStatsContent(data)
       ELSE FallbackContent(data)
  ELSE ErrorContent(data)

\* The chain `if (data.success) { if ... else if ... } else { ... }` of
\* handleSubmit and handleSubmitMessage: the value left in responseContent,
\* or the exception that leaves the try block.
responseContent(data) ==
  IF Truthy(data.success)
  THEN IF MatchFormatted(data) THEN Field(data.results, "formattedMessage")
       ELSE IF MatchTrends(data) THEN TrendsContent(data)
       ELSE IF MatchAnalytics(data) THEN AnalyticsContent(data)
       ELSE IF MatchAnswer(data) THEN AnswerContent(data)
       ELSE IF MatchWorkflowStats(data) THEN WorkflowStatsContent(data)
       ELSE IF MatchSummary(data) THEN SummaryContent(data)
       ELSE FallbackContent(data)
  ELSE ErrorContent(data)

\* The same chain as written a second time in handleSubmitMessage
responseContentMessage(data) ==
  IF Truthy(data.success)
  THEN IF MatchFormatted(data) THEN Field(data.results, "formattedMessage")
       ELSE IF MatchTrends(data) THEN TrendsContent(data)
       ELSE IF MatchAnalytics(data) THEN AnalyticsContent(data)
       ELSE IF MatchAnswer(data) THEN AnswerContent(data)
       ELSE IF MatchWorkflowStats(data) THEN WorkflowStatsContent(data)
       ELSE IF MatchSummary(data) THEN SummaryContent(data)
       ELSE FallbackContent(data)
  ELSE ErrorContent(data)

\* A reply whose text carries the time it was written at
ReplyMessage_timed(content, data, time, rid) ==
  IF content.t = "throw"
  THEN [id |-> <<ToString(time + 1)>>,
        content |-> Str(<<"[x] **Connection Error**: ">> \o content.v),
        type |-> "ai", status |-> "error", req |-> rid]
  ELSE [id |-> <<ToString(time + 1)>>,
        content |-> IF content.t = "string"
                    THEN Str(content.v \o <<ToString(time)>>) ELSE content,
        type |-> "ai",
        status |-> IF Truthy(data.success) THEN "success" ELSE "error",
        req |-> rid]

\* The message the handler appends for an evaluated chain: aiMessage when
\* the try block completes, errorMessage of the catch block when it throws.
\* `req` is a history field naming the request the message answers.
ReplyMessage(content, data, time, rid) ==
  IF content.t = "throw"
  THEN [id |-> <<ToString(time + 1)>>,
        content |-> Str(<<"[x] **Connection Error**: ">> \o content.v),
        type |-> "ai", status |-> "error", req |-> rid]
  ELSE [id |-> <<ToString(time + 1)>>, content |-> content, type |-> "ai",
        status |-> IF Truthy(data.success) THEN "success" ELSE "error",
        req |-> rid]

(***************************************************************************)
(* Backend payloads.                                                       *)
(***************************************************************************)
NoResults ==
  [tool |-> Undef, summary |-> Undef, organization_id |-> Undef,
   workflow_id |-> Undef, timeframe |-> Undef, total_logs |-> Undef,
   unique_contacts |-> Undef, formattedMessage |-> Undef, trends |-> Undef,
   analytics |-> Undef, answer |-> Undef, total_rows |-> Undef,
   total_event_types |-> Undef, analyticsData |-> Undef, trendsData |-> Undef,
   processingTimeHuman |-> Undef, execution_type |-> Undef,
   entry_events |-> Undef, queryType |-> Undef, organizationId |-> Undef]

NoData ==
  [success |-> Undef, tool_executed |-> Undef, results |-> Undef,
   result |-> Undef, response |-> Undef, message |-> Undef, error |-> Undef,
   conversation_id |-> Undef, timestamp |-> Undef]

Trend(name, count, hour) ==
  Obj([event_name |-> Str(name), event_source |-> Str(<<"contacts">>),
       event_count |-> count, hour |-> Num(hour)])

AnalyticsEntry(name, source, total, contacts, first, last) ==
  Obj([event_name |-> name, event_source |-> source, total_events |-> total,
       unique_contacts |-> contacts, first_event |-> first, last_event |-> last])

SampleTrends ==
  Arr(<<Trend(<<"added">>, Num(2), 1), Trend(<<"opened">>, Num(1), 1),
        Trend(<<"added">>, Num(3), 2)>>)

SampleAnalytics ==
  Arr(<<AnalyticsEntry(Str(<<"added", "_", "to", "_", "lists">>), Str(<<"contacts">>),
                       Num(86), Num(79), Num(100), Num(200)),
        AnalyticsEntry(Str(<<"email", "_", "unsubscribed">>), Str(<<"email">>),
                       Num(38), Num(35), Num(110), Num(210))>>)

\* An analytics entry without total_events: the breakdown loop throws on it
BrokenAnalytics ==
  Arr(<<AnalyticsEntry(Str(<<"added">>), Str(<<"contacts">>), Undef, Num(1),
                       Num(100), Num(200))>>)

\* The payloads the normalizer is read on: every combination of the fields
\* the chain probes, present (truthy), present but falsy, or absent.
NormalizerResults ==
  { Obj([NoResults EXCEPT !.formattedMessage = fm, !.trends = tr,
                          !.analytics = an, !.answer = aw, !.summary = sm,
                          !.organization_id = Num(123),
                          !.timeframe = Str(<<"7d">>)]) :
      fm \in {Undef, Str(<< >>), Str(<<"formatted">>)},
      tr \in {Undef, SampleTrends},
      an \in {Undef, Arr(<< >>), SampleAnalytics, BrokenAnalytics},
      aw \in {Undef, Obj([summary |-> Str(<<"answer summary">>),
                          statistics |-> Obj([total_events |-> Num(5),
                                              unique_event_types |-> Undef,
                                              unique_sources |-> Num(2),
                                              data_points |-> Undef])])},
      sm \in {Undef, Str(<<"short summary">>)} }
  \cup { Obj([NoResults EXCEPT !.analytics = SampleAnalytics,
                               !.organization_id = org, !.timeframe = tf]) :
           org \in {Undef, Num(123)}, tf \in {Undef, Str(<<"30d">>)} }
  \cup {Undef}

ToolNames ==
  { Undef, Str(get_event_trends), Str(get_event_analytics),
    Str(get_workflow_execution_statistics), Str(<<"path", "_", "analysis">>) }

NormalizerPayloads ==
  { [NoData EXCEPT !.success = Bool(ok), !.tool_executed = tool, !.results = res,
                   !.result = fb[1], !.response = fb[2], !.message = fb[3],
                   !.error = IF ok THEN Undef ELSE Str(<<"Backend timeout">>),
                   !.timestamp = Str(<<"2026-01-01T00:00:00Z">>)] :
      ok \in BOOLEAN, tool \in ToolNames, res \in NormalizerResults,
      fb \in { <<Undef, Undef, Undef>>,
               <<Undef, Undef, Str(<<"msg">>)>>,
               <<Str(<< >>), Str(<<"resp">>), Str(<<"msg">>)>>,
               <<Str(<<"res">>), Undef, Str(<<"msg">>)>> } }

(***************************************************************************)
(* The normalizer applied to one payload by either handler.                *)
(***************************************************************************)
VARIABLES
  nz_data,      \* the payload response.json() returned
  nz_handler,   \* which handler has run: "none", "handleSubmit", "handleSubmitMessage"
  nz_message    \* the message the handler appended

nz_vars == <<nz_data, nz_handler, nz_message>>

nz_Init ==
  /\ nz_data \in NormalizerPayloads
  /\ nz_handler = "none"
  /\ nz_message = Undef

\* handleSubmit from `let responseContent` to setMessages
nz_handleSubmit ==
  /\ nz_handler = "none"
  /\ nz_handler' = "handleSubmit"
  /\ nz_message' = ReplyMessage(responseContent(nz_data), nz_data, 0, 0)
  /\ UNCHANGED nz_data

\* handleSubmitMessage from `let responseContent` to setMessages
nz_handleSubmitMessage ==
  /\ nz_handler = "none"
  /\ nz_handler' = "handleSubmitMessage"
  /\ nz_message' = ReplyMessage(responseContentMessage(nz_data), nz_data, 0, 0)
  /\ UNCHANGED nz_data

(***************************************************************************)
(* ChatInterface: the chat view.                                           *)
(***************************************************************************)
VARIABLES
  activeTab,       \* the tab shown
  messages,        \* the message list
  inputValue,      \* the text of the textarea
  isLoading,
  conversationId,
  inflight,        \* the /api/chat requests awaiting their response
  issued,          \* how many requests have been started (names the next one)
  timers,          \* payloads of the setTimeout callbacks not yet run
  now              \* Date.now()

ch_vars ==
  <<activeTab, messages, inputValue, isLoading, conversationId, inflight,
    issued, timers, now>>

\* Requests started per run of the model
MaxRequests == 2
\* The time at which the view is opened
Epoch == 1000

\* The tabs the chat claims need: the chat pane and the visualization pane
ChatTabs == {"chat", "visualization"}

\* What the user types, and the prompts of the quick-action buttons
InputValues == {<< >>, <<" ">>, <<" ", "how", " ", "many", "?">>}
QuickPrompts == {<<"how", " ", "many", "?">>}
VisualizationQueries == {<<"events", " ", "in", " ", "7 days">>}

WelcomeMessage ==
  [id |-> <<"1">>, content |-> Str(<<"Welcome">>), type |-> "ai",
   status |-> "success", req |-> 0]

\* The responses /api/chat gives the chat view: a plain answer under one of
\* two conversation ids, and the route's error envelope, which has none
ChatPayloads ==
  { [NoData EXCEPT !.success = Bool(TRUE), !.message = Str(<<"msg">>),
                   !.conversation_id = c] :
      c \in {Str(<<"wf_A">>), Str(<<"wf_B">>)} }
  \cup
  { [NoData EXCEPT !.success = Bool(FALSE),
                   !.error = Str(<<"Backend error: boom">>)] }

\* An event-analytics answer, the one that makes handleSubmit schedule the
\* chart callback
AnalyticsPayload ==
  [NoData EXCEPT !.success = Bool(TRUE), !.message = Str(<<"msg">>),
                 !.tool_executed = Str(get_event_analytics),
                 !.results = Obj([NoResults EXCEPT !.analytics = SampleAnalytics,
                                                   !.organization_id = Num(123)]),
                 !.conversation_id = Str(<<"wf_A">>)]

ch_Init ==
  /\ activeTab = "chat"
  /\ messages = <<WelcomeMessage>>
  /\ inputValue = << >>
  /\ isLoading = FALSE
  /\ conversationId = Null
  /\ inflight = {}
  /\ issued = 0
  /\ timers = << >>
  /\ now = Epoch

\* window.handleEventAnalyticsResponse exists while WorkflowAnalytics is mounted
HandlerRegistered == activeTab = "workflows"

\* The state of DataVisualization, which lives while its tab is shown
VARIABLES
  query,              \* the text of the query input
  visualizationData,  \* Null or [type, data.events, organizationScope, timeframe]
  activeChart,
  apiResponse,
  isAnalyzing,
  sortOrder,
  dv_inflight,        \* the requests of DataVisualization awaiting a response
  dv_issued,          \* how many queries have been submitted
  dv_last,            \* the query that completed last, with its outcome
  dv_dataFrom         \* the query whose response visualizationData was set from

dv_vars ==
  <<query, visualizationData, activeChart, apiResponse, isAnalyzing, sortOrder,
    dv_inflight, dv_issued, dv_last, dv_dataFrom>>

\* No query has completed yet
NoQuery == [qid |-> 0]

\* The useState initial values of DataVisualization
dv_Mount(q, vd, chart, text, analyzing, order) ==
  /\ q = << >>
  /\ vd = Null
  /\ chart = "bar"
  /\ text = Str(<< >>)
  /\ analyzing = FALSE
  /\ order = "desc"

dv_Init ==
  /\ dv_Mount(query, visualizationData, activeChart, apiResponse, isAnalyzing,
              sortOrder)
  /\ dv_inflight = {}
  /\ dv_issued = 0
  /\ dv_last = NoQuery
  /\ dv_dataFrom = 0

\* Leaving the visualization tab unmounts DataVisualization: its state is
\* dropped and created anew when the tab is shown again
setActiveTab(tab) ==
  /\ activeTab' = tab
  /\ IF activeTab = "visualization" /\ tab # "visualization"
     THEN /\ dv_Mount(query', visualizationData', activeChart', apiResponse',
                      isAnalyzing', sortOrder')
          /\ dv_inflight' = {}
          /\ dv_last' = NoQuery
          /\ dv_dataFrom' = 0
          /\ UNCHANGED dv_issued
     ELSE UNCHANGED dv_vars
  /\ UNCHANGED <<messages, inputValue, isLoading, conversationId, inflight,
                 issued, timers, now>>

\* onChange of the textarea
setInputValue ==
  /\ activeTab = "chat"
  /\ \E v \in InputValues : inputValue' = v
  /\ UNCHANGED <<activeTab, messages, isLoading, conversationId, inflight,
                 issued, timers, now>>

handleQuickAction ==
  /\ activeTab = "chat"
  /\ \E prompt \in QuickPrompts : inputValue' = prompt
  /\ UNCHANGED <<activeTab, messages, isLoading, conversationId, inflight,
                 issued, timers, now>>

\* The head of both handlers: append the user message, set isLoading and
\* send the request with the conversationId of the current render.
StartRequest(by, messageContent) ==
  /\ issued < MaxRequests
  /\ messages' = Append(messages,
       [id |-> <<ToString(now)>>, content |-> Str(messageContent),
        type |-> "user", status |-> "none", req |-> issued + 1])
  /\ isLoading' = TRUE
  /\ inflight' = inflight \cup
       {[rid |-> issued + 1, by |-> by, message |-> Str(messageContent),
         conversation_id |-> conversationId,
         userId |-> <<"ui-user-", ToString(now)>>]}
  /\ issued' = issued + 1

\* handleSubmit(e) up to the fetch
handleSubmit ==
  LET messageContent == Trim(inputValue) IN
  /\ messageContent # << >>
  /\ StartRequest("handleSubmit", messageContent)
  /\ inputValue' = << >>
  /\ UNCHANGED <<activeTab, conversationId, timers, now>>

\* The send button submits the form unless it is disabled
submitButton ==
  /\ activeTab = "chat"
  /\ ~(Trim(inputValue) = << >> \/ isLoading)
  /\ handleSubmit

\* Enter without Shift in the textarea
handleKeyDown ==
  /\ activeTab = "chat"
  /\ handleSubmit

\* handleSubmitMessage(messageContent) up to the fetch
handleSubmitMessage(messageContent) ==
  /\ ~(Trim(messageContent) = << >> \/ isLoading)
  /\ StartRequest("handleSubmitMessage", messageContent)
  /\ UNCHANGED <<activeTab, inputValue, conversationId, timers, now>>

\* handleQuickAction(query) of DataVisualization: setQuery(query), then
\* onSendMessage(query), which is handleSubmitMessage and returns at once
\* when the chat is loading
dv_handleQuickAction ==
  /\ activeTab = "visualization"
  /\ \E q \in VisualizationQueries :
       /\ query' = q
       /\ IF isLoading THEN UNCHANGED ch_vars ELSE handleSubmitMessage(q)
  /\ UNCHANGED <<visualizationData, activeChart, apiResponse, isAnalyzing,
                 sortOrder, dv_inflight, dv_issued, dv_last, dv_dataFrom>>

\* Either handler after `await response.json()` has returned data
ReceiveData(r, data) ==
  LET content == IF r.by = "handleSubmit" THEN responseContent(data)
                 ELSE responseContentMessage(data)
      schedules ==
        /\ r.by = "handleSubmit"
        /\ Truthy(data.success)
        /\ ~MatchFormatted(data) /\ ~MatchTrends(data) /\ MatchAnalytics(data)
        /\ content.t # "throw"
        /\ HandlerRegistered
  IN
  /\ conversationId' =
       IF Truthy(data.conversation_id) /\ ~Truthy(r.conversation_id)
       THEN data.conversation_id ELSE conversationId
  /\ timers' = IF schedules THEN Append(timers, data) ELSE timers
  /\ messages' = Append(messages, ReplyMessage(content, data, now, r.rid))
  /\ isLoading' = FALSE

\* A catch block that clears isLoading and appends nothing
ReceiveFailure_silent(r, reason) ==
  /\ isLoading' = FALSE
  /\ UNCHANGED <<messages, conversationId, timers>>

\* The catch block when fetch or response.json() rejects
ReceiveFailure(r, reason) ==
  /\ messages' = Append(messages, ReplyMessage(Throw(reason), NoData, now, r.rid))
  /\ isLoading' = FALSE
  /\ UNCHANGED <<conversationId, timers>>

\* A response arrives with the JSON body data
chatResponse(data) ==
  \E r \in inflight :
    /\ ReceiveData(r, data)
    /\ inflight' = inflight \ {r}
    /\ UNCHANGED <<activeTab, inputValue, issued, now>>

\* The fetch rejects, or response.json() does
chatFailure ==
  \E r \in inflight :
    /\ ReceiveFailure(r, <<"Failed to fetch">>)
    /\ inflight' = inflight \ {r}
    /\ UNCHANGED <<activeTab, inputValue, issued, now>>


(***************************************************************************)
(* DataVisualization: the three mappers to the EventData list.             *)
(***************************************************************************)
IsDigit(c) == c \in {"0", "1", "2", "3", "4", "5", "6", "7", "8", "9"}

DigitValue(c) ==
  CASE c = "0" -> 0 [] c = "1" -> 1 [] c = "2" -> 2 [] c = "3" -> 3
    [] c = "4" -> 4 [] c = "5" -> 5 [] c = "6" -> 6 [] c = "7" -> 7
    [] c = "8" -> 8 [] c = "9" -> 9

\* The value of the longest prefix of digits of s, read after acc
RECURSIVE DigitsValue(_, _)
DigitsValue(s, acc) ==
  IF s = << >> \/ ~IsDigit(Head(s)) THEN acc
  ELSE DigitsValue(Tail(s), acc * 10 + DigitValue(Head(s)))

\* parseInt(x): the integer at the head of String(x), NaN when there is none
ParseInt(x) ==
  IF x.t = "number" THEN Num(x.v)
  ELSE IF x.t # "string" THEN NaN
  ELSE LET s == TrimStart(x.v)
           negative == s # << >> /\ Head(s) = "-"
           digits == IF s # << >> /\ Head(s) \in {"-", "+"} THEN Tail(s) ELSE s
       IN IF digits = << >> \/ ~IsDigit(Head(digits)) THEN NaN
          ELSE Num((IF negative THEN -1 ELSE 1) * DigitsValue(digits, 0))

\* x >= 0: the filter that lets a zero through
Positive_orZero(x) == x.t = "number" /\ x.v >= 0

\* x > 0
Positive(x) == x.t = "number" /\ x.v > 0

\* new Date(ms)
Date(x) == [t |-> "date", v |-> x]

\* (a, b) => b.count - a.count when order is "desc",
\* (a, b) => a.count - b.count when it is "asc": negative puts a first
Compare(a, b, order) == IF order = "desc" THEN b.count - a.count ELSE a.count - b.count

\* events.sort(compare): Array.prototype.sort is stable, a record moves
\* ahead only of the records the comparison puts it before
RECURSIVE InsertSorted(_, _, _)
InsertSorted(sorted, e, order) ==
  IF sorted = << >> THEN <<e>>
  ELSE IF Compare(e, Head(sorted), order) < 0 THEN <<e>> \o sorted
  ELSE <<Head(sorted)>> \o InsertSorted(Tail(sorted), e, order)

RECURSIVE StableSort(_, _)
StableSort(events, order) ==
  IF events = << >> THEN << >>
  ELSE InsertSorted(StableSort(SubSeq(events, 1, Len(events) - 1), order),
                    events[Len(events)], order)

\* array.filter(event => event.count > 0), each kept count as its number
RECURSIVE KeepPositive(_)
KeepPositive(events) ==
  IF events = << >> THEN << >>
  ELSE (IF Positive(Head(events).count)
        THEN <<[Head(events) EXCEPT !.count = Head(events).count.v]>> ELSE << >>)
       \o KeepPositive(Tail(events))

\* The object literal of the map callback of parseEventAnalyticsResponse
EventOfAnalytics(item) ==
  [name |-> ReplaceUnderscores(Or(item.event_name, Str(<<"Unknown Event">>)).v),
   count |-> ParseInt(Or(item.total_events, Num(0))),
   source |-> Or(item.event_source, Str(<<"unknown">>)).v,
   uniqueContacts |-> Or(item.unique_contacts, Num(0)),
   firstEvent |-> IF Truthy(item.first_event) THEN Date(item.first_event) ELSE Null,
   lastEvent |-> IF Truthy(item.last_event) THEN Date(item.last_event) ELSE Null]

\* extractTimeframe(query): the query q is a sequence of words and blanks
LowerCase(w) == CASE w = "Client" -> "client" [] w = "Week" -> "week" [] OTHER -> w

Includes(text, words) == \E i \in DOMAIN text : LowerCase(text[i]) \in words

extractTimeframe(q) ==
  IF Includes(q, {"24 hours", "1 day"}) THEN <<"1d">>
  ELSE IF Includes(q, {"3 days"}) THEN <<"3d">>
  ELSE IF Includes(q, {"7 days", "week"}) THEN <<"7d">>
  ELSE <<"7d">>

\* The mapper without its events.sort
parseEventAnalyticsResponse_unsorted(results) ==
  IF results.t # "object" THEN Null
  ELSE LET analytics == results.v.analytics IN
       IF ~Truthy(analytics) \/ analytics.t # "array" THEN Null
       ELSE LET events == KeepPositive([i \in DOMAIN analytics.v |->
                                          EventOfAnalytics(analytics.v[i].v)])
            IN IF Len(events) > 0
               THEN [type |-> "analytics",
                     data |-> [events |-> events],
                     organizationScope |->
                       IF Truthy(results.v.organization_id) THEN "specific"
                       ELSE "global",
                     timeframe |-> Or(results.v.timeframe, Str(<<"7d">>)).v]
               ELSE Null

\* parseEventAnalyticsResponse(results): the value it passes to
\* setVisualizationData (every path of it, the catch block too, sets one)
parseEventAnalyticsResponse(results) ==
  IF results.t # "object" THEN Null
  ELSE LET analytics == results.v.analytics IN
       IF ~Truthy(analytics) \/ analytics.t # "array" THEN Null
       ELSE LET events == KeepPositive([i \in DOMAIN analytics.v |->
                                          EventOfAnalytics(analytics.v[i].v)])
            IN IF Len(events) > 0
               THEN [type |-> "analytics",
                     data |-> [events |-> StableSort(events, "desc")],
                     organizationScope |->
                       IF Truthy(results.v.organization_id) THEN "specific"
                       ELSE "global",
                     timeframe |-> Or(results.v.timeframe, Str(<<"7d">>)).v]
               ELSE Null

\* The object literals of the two map callbacks of parseStructuredApiResponse
EventOfSource(item) ==
  [name |-> ReplaceUnderscores(Or(item.source, Str(<<"Unknown Source">>)).v),
   count |-> ParseInt(Or(Or(item.total_events, item.count), Num(0))),
   source |-> Or(item.source, Str(<<"unknown">>)).v]

EventOfStructured(item) ==
  [name |-> ReplaceUnderscores(Or(Or(item.event_name, item.name), Str(<<"Unknown">>)).v),
   count |-> ParseInt(Or(Or(item.event_count, item.count), Num(0))),
   source |-> Or(item.source, Str(<<"unknown">>)).v]

\* parseStructuredApiResponse(results), with the query q of the render that
\* submitted: the value it passes to setVisualizationData
parseStructuredApiResponse(results, q) ==
  IF results.t # "object" THEN Null
  ELSE LET analyticsData == results.v.analyticsData IN
       IF ~Truthy(analyticsData) \/ analyticsData.t # "array" THEN Null
       ELSE LET queryType == Or(results.v.queryType, Str(<<"count_by_type">>))
                events ==
                  KeepPositive([i \in DOMAIN analyticsData.v |->
                    IF queryType = Str(<<"source_analytics">>)
                    THEN EventOfSource(analyticsData.v[i].v)
                    ELSE EventOfStructured(analyticsData.v[i].v)])
            IN IF Len(events) > 0
               THEN [type |-> "analytics",
                     data |-> [events |-> StableSort(events, "desc")],
                     organizationScope |->
                       IF Truthy(results.v.organizationId) THEN "specific"
                       ELSE "global",
                     timeframe |->
                       Or(Field(results.v.timeframe, "original"),
                          Str(extractTimeframe(q))).v]
               ELSE Null

(***************************************************************************)
(* The text mapper.  A line of the answer is the tokens between two "\n".   *)
(***************************************************************************)
RECURSIVE SkipBlanks(_)
SkipBlanks(s) == IF s # << >> /\ IsBlank(Head(s)) THEN SkipBlanks(Tail(s)) ELSE s

\* The longest prefix of s without the token stop
RECURSIVE Before(_, _)
Before(s, stop) ==
  IF s = << >> \/ Head(s) = stop THEN << >> ELSE <<Head(s)>> \o Before(Tail(s), stop)

\* The token \d+\. that numbers an entry
IsNumbering(tok) == tok \in {"1.", "2.", "3.", "4."}

\* trimmedLine.match(/^\d+\.\s*\*\*([^*]+)\*\*\s*\(Source:\s*([^)]+)\)/):
\* the two captured groups, or Null
eventMatch(trimmedLine) ==
  IF trimmedLine = << >> \/ ~IsNumbering(Head(trimmedLine)) THEN Null
  ELSE LET s1 == SkipBlanks(Tail(trimmedLine)) IN
       IF s1 = << >> \/ Head(s1) # "**" THEN Null
       ELSE LET name == Before(Tail(s1), "**")
                s2 == SubSeq(s1, Len(name) + 2, Len(s1))
            IN IF name = << >> \/ s2 = << >> THEN Null
               ELSE LET s3 == SkipBlanks(Tail(s2)) IN
                    IF s3 = << >> \/ Head(s3) # "(Source:" THEN Null
                    ELSE LET source == Before(Tail(s3), ")") IN
                         IF source = << >> \/ Len(source) + 1 = Len(s3) THEN Null
                         ELSE [name |-> name, source |-> source]

\* The longest prefix of s of the shape \d+(?:,\d+)*
RECURSIVE DigitGroups(_)
DigitGroups(s) ==
  IF s = << >> \/ ~IsDigit(Head(s)) THEN << >>
  ELSE LET rest == Tail(s) IN
       IF rest # << >> /\ IsDigit(Head(rest)) THEN <<Head(s)>> \o DigitGroups(rest)
       ELSE IF Len(rest) >= 2 /\ Head(rest) = "," /\ IsDigit(rest[2])
            THEN <<Head(s), ",">> \o DigitGroups(Tail(rest))
            ELSE <<Head(s)>>

\* trimmedLine.match(/^\s*-\s*Events:\s*(\d+(?:,\d+)*)/): the group, or Null
countMatch(trimmedLine) ==
  IF trimmedLine = << >> \/ Head(trimmedLine) # "-" THEN Null
  ELSE LET s1 == SkipBlanks(Tail(trimmedLine)) IN
       IF s1 = << >> \/ Head(s1) # "Events:" THEN Null
       ELSE LET digits == DigitGroups(SkipBlanks(Tail(s1))) IN
            IF digits = << >> THEN Null ELSE [digits |-> digits]

\* s.replace(/,/g, '')
RemoveCommas(s) == SelectSeq(s, LAMBDA c : c # ",")

\* currentEvent.name && currentEvent.count
Complete(currentEvent) == currentEvent.name # << >> /\ currentEvent.count # 0

\* The for loop over the lines: [events, currentEvent] after the lines
RECURSIVE ScanLines(_)
ScanLines(lines) ==
  IF lines = << >>
  THEN [events |-> << >>, currentEvent |-> [name |-> << >>, source |-> << >>, count |-> 0]]
  ELSE LET before == ScanLines(SubSeq(lines, 1, Len(lines) - 1))
           trimmedLine == Trim(lines[Len(lines)])
           em == eventMatch(trimmedLine)
           cm == countMatch(trimmedLine)
       IN IF trimmedLine = << >> THEN before
          ELSE IF em # Null
          THEN [events |-> IF Complete(before.currentEvent)
                           THEN Append(before.events, before.currentEvent)
                           ELSE before.events,
                currentEvent |-> [name |-> ReplaceUnderscores(Trim(em.name)),
                                  source |-> Trim(em.source), count |-> 0]]
          ELSE IF cm # Null /\ before.currentEvent.name # << >>
          THEN LET count == ParseInt(Str(RemoveCommas(cm.digits))) IN
               IF Positive(count)
               THEN [before EXCEPT !.currentEvent.count = count.v]
               ELSE before
          ELSE before

\* events.reduce(...): one record per name, the higher count kept in the
\* place of the first
RECURSIVE UniqueEvents(_)
\* The reduce that keeps the first record of a name whatever its count
UniqueEvents_keepFirst(events) ==
  IF events = << >> THEN << >>
  ELSE LET acc == UniqueEvents(SubSeq(events, 1, Len(events) - 1))
           current == events[Len(events)]
           found == {i \in DOMAIN acc : acc[i].name = current.name}
       IN IF found = {} THEN Append(acc, current) ELSE acc

UniqueEvents(events) ==
  IF events = << >> THEN << >>
  ELSE LET acc == UniqueEvents(SubSeq(events, 1, Len(events) - 1))
           current == events[Len(events)]
           found == {i \in DOMAIN acc : acc[i].name = current.name}
       IN IF found = {} THEN Append(acc, current)
          ELSE LET index == CHOOSE i \in found : \A j \in found : i <= j IN
               IF current.count > acc[index].count
               THEN [acc EXCEPT ![index] = current] ELSE acc

\* response.split('\n')
RECURSIVE Split(_)
Split(s) ==
  LET breaks == {i \in DOMAIN s : s[i] = "\n"} IN
  IF breaks = {} THEN <<s>>
  ELSE LET first == CHOOSE i \in breaks : \A j \in breaks : i <= j IN
       <<SubSeq(s, 1, first - 1)>> \o Split(SubSeq(s, first + 1, Len(s)))

\* A call of setVisualizationData(value), or none
Set(value) == [set |-> TRUE, value |-> value]
NoSet == [set |-> FALSE]

\* parseApiResponseForVisualization(response), with the query q of the
\* render that submitted: the call of setVisualizationData it makes.
\* response.split throws on anything but a string, and the catch block sets
\* nothing.
parseApiResponseForVisualization(response, q) ==
  IF response.t # "string" THEN NoSet
  ELSE LET scan == ScanLines(Split(response.v))
           events == IF Complete(scan.currentEvent)
                     THEN Append(scan.events, scan.currentEvent) ELSE scan.events
           uniqueEvents == StableSort(UniqueEvents(events), "desc")
       IN IF Len(uniqueEvents) > 0
          THEN Set([type |-> "analytics",
                    data |-> [events |-> uniqueEvents],
                    organizationScope |->
                      IF Includes(q, {"client"}) THEN "specific" ELSE "global",
                    timeframe |-> extractTimeframe(q)])
          ELSE Set(Null)

(***************************************************************************)
(* DataVisualization: handleSubmit and the controls of the view.           *)
(***************************************************************************)
\* Queries submitted per run of the model
MaxQueries == 2

\* What the user types in the query input
QueryValues ==
  { << >>, <<"events", " ", "in", " ", "7 days">>,
    <<"Client", " ", "4694108", " ", "last", " ", "3 days">> }

StructuredItem(name, count) ==
  Obj([source |-> Str(<<"contacts">>), total_events |-> Undef, count |-> Undef,
       event_name |-> Str(name), name |-> Undef, event_count |-> count])

SampleAnalyticsData ==
  Arr(<<StructuredItem(<<"opened">>, Num(4)), StructuredItem(<<"clicked">>, Num(9)),
        StructuredItem(<<"bounced">>, Num(0)),
        StructuredItem(<<"rated">>, Str(<<"1", "2", ".", "7">>)),
        StructuredItem(<<"refunded">>, Num(-3)),
        StructuredItem(<<"skipped">>, Str(<<"n", "/", "a">>)),
        StructuredItem(<<"queued">>, Undef)>>)

\* A fallback text in the format the text mapper reads
SampleText ==
  Str(<<"Found", " ", "2", " ", "events", "\n", "\n",
        "1.", " ", "**", "added", "_", "to", "_", "lists", "**", " ",
        "(Source:", " ", "contacts", ")", "\n",
        " ", " ", "-", " ", "Events:", " ", "1", ",", "2", "0", "0", "\n",
        "2.", " ", "**", "opened", "**", " ", "(Source:", " ", "email", ")", "\n",
        " ", " ", "-", " ", "Events:", " ", "7", "\n",
        "3.", " ", "**", "bounced", "**", " ", "(Source:", " ", "email", ")", "\n",
        " ", " ", "-", " ", "Events:", " ", "0">>)

\* An analytics array with more entries than a chart shows: 21 event types
\* with the counts 1 to 21, in no order
ManyAnalytics ==
  Arr([i \in 1..21 |->
         AnalyticsEntry(Str(<<"event", "_", ToString(i)>>), Str(<<"contacts">>),
                        Num(((i * 5) % 21) + 1), Num(1), Num(100), Num(200))])

\* The answers /api/chat gives DataVisualization: one per path of handleSubmit
VizPayloads ==
  LET ok == [NoData EXCEPT !.success = Bool(TRUE)]
      analytics(a) ==
        [ok EXCEPT !.tool_executed = Str(get_event_analytics),
                   !.message = Str(<<"msg">>),
                   !.results = Obj([NoResults EXCEPT !.analytics = a,
                                                     !.organization_id = Num(123),
                                                     !.timeframe = Str(<<"30d">>),
                                                     !.total_event_types = Num(2)])]
      structured(r) == [ok EXCEPT !.results = Obj(r)]
  IN { analytics(SampleAnalytics), analytics(Arr(<< >>)), analytics(BrokenAnalytics),
       analytics(ManyAnalytics),
       [ok EXCEPT !.tool_executed = Str(get_event_analytics),
                  !.message = Str(<<"msg">>),
                  !.results = Obj([NoResults EXCEPT
                                     !.formattedMessage = Str(<<"formatted">>),
                                     !.analytics = SampleAnalytics,
                                     !.organization_id = Num(123),
                                     !.timeframe = Str(<<"30d">>),
                                     !.total_event_types = Num(2)])],
       structured([NoResults EXCEPT !.formattedMessage = Str(<<"formatted">>),
                                    !.analyticsData = SampleAnalyticsData]),
       structured([NoResults EXCEPT !.formattedMessage = Str(<<"formatted">>)]),
       structured([NoResults EXCEPT
                     !.answer = Obj([summary |-> Str(<<"summary">>)])]),
       [ok EXCEPT !.message = SampleText],
       [ok EXCEPT !.message = Str(<<"No", " ", "events", " ", "found">>)],
       ok,
       [NoData EXCEPT !.success = Bool(FALSE), !.error = Str(<<"Backend error">>)] }

\* onChange of the query input
setQuery ==
  /\ \E q \in QueryValues : query' = q
  /\ UNCHANGED <<visualizationData, activeChart, apiResponse, isAnalyzing,
                 sortOrder, dv_inflight, dv_issued, dv_last, dv_dataFrom>>

\* onClick of a chart type button
setActiveChart ==
  /\ \E type \in {"bar", "line", "pie", "table"} : activeChart' = type
  /\ UNCHANGED <<query, visualizationData, apiResponse, isAnalyzing, sortOrder,
                 dv_inflight, dv_issued, dv_last, dv_dataFrom>>

\* handleSort(): reorders the records shown, against the current order
handleSort ==
  /\ visualizationData # Null
  /\ Len(visualizationData.data.events) > 0
  /\ visualizationData' =
       [visualizationData EXCEPT !.data =
          [events |-> StableSort(visualizationData.data.events,
                                 IF sortOrder = "desc" THEN "asc" ELSE "desc")]]
  /\ sortOrder' = IF sortOrder = "desc" THEN "asc" ELSE "desc"
  /\ UNCHANGED <<query, activeChart, apiResponse, isAnalyzing, dv_inflight,
                 dv_issued, dv_last, dv_dataFrom>>

\* onClick of the button that closes the answer panel
clearApiResponse ==
  /\ apiResponse # Str(<< >>)
  /\ apiResponse' = Str(<< >>)
  /\ UNCHANGED <<query, visualizationData, activeChart, isAnalyzing, sortOrder,
                 dv_inflight, dv_issued, dv_last, dv_dataFrom>>

\* handleSubmit(e) of DataVisualization up to the fetch.  The form submits
\* through its submit button, which is disabled while isAnalyzing.
dv_handleSubmit ==
  /\ ~(isAnalyzing \/ Trim(query) = << >>)
  /\ dv_issued < MaxQueries
  /\ isAnalyzing' = TRUE
  /\ apiResponse' = Str(<< >>)
  /\ dv_inflight' = dv_inflight \cup {[qid |-> dv_issued + 1, query |-> query]}
  /\ dv_issued' = dv_issued + 1
  /\ UNCHANGED <<query, visualizationData, activeChart, sortOrder, dv_last,
                 dv_dataFrom>>

\* The lines the forEach of handleSubmit adds for the entries from index on
RECURSIVE BreakdownLines(_, _)
BreakdownLines(analytics, index) ==
  IF index > Len(analytics) THEN << >>
  ELSE LET event == analytics[index].v IN
       <<ToString(index), ". **">> \o Text(event.event_name) \o <<"** (">>
         \o Text(event.event_source) \o <<"): ">> \o Text(event.total_events)
         \o <<" events, ">> \o Text(event.unique_contacts)
         \o <<" unique contacts\n">>
         \o BreakdownLines(analytics, index + 1)

\* The text of the event analytics branch of handleSubmit, or what it throws
BreakdownContent(data) ==
  LET analytics == Field(data.results, "analytics") IN
  IF analytics.t # "array" THEN Throw(<<"analytics.forEach is not a function">>)
  ELSE IF \E i \in DOMAIN analytics.v :
            ~CanStringify(analytics.v[i].v.total_events)
            \/ ~CanStringify(analytics.v[i].v.unique_contacts)
  THEN Throw(<<"Cannot read properties of undefined (reading 'toLocaleString')">>)
  ELSE Str(<<"[chart] **Event Analytics Results**\n\n">> \o Text(data.message)
        \o <<"\n\n", "**Organization:** ">>
        \o Text(Field(data.results, "organization_id"))
        \o <<"\n", "**Timeframe:** ">> \o Text(Field(data.results, "timeframe"))
        \o <<"\n", "**Total Event Types:** ">>
        \o Text(Field(data.results, "total_event_types"))
        \o <<"\n\n", "**Event Breakdown:**\n">>
        \o BreakdownLines(analytics.v, 1))

\* What the catch block of handleSubmit shows
ConnectionError(message) == Str(<<"[x] **Connection Error**: ">> \o message)

\* handleSubmit of DataVisualization from `await response.json()` on, for
\* the query q it was submitted with: the text it passes to setApiResponse
\* and the call of setVisualizationData it makes
handleSubmitOutcome(data, q) ==
  IF ~Truthy(data.success)
  THEN [text |-> Str(<<"[x] **Error**: ">> \o Text(data.error)), call |-> NoSet]
  ELSE IF MatchAnalytics(data)
  THEN LET content == BreakdownContent(data) IN
       IF content.t = "throw"
       THEN [text |-> ConnectionError(content.v), call |-> NoSet]
       ELSE [text |-> content, call |-> Set(parseEventAnalyticsResponse(data.results))]
  ELSE IF MatchFormatted(data)
  THEN [text |-> Field(data.results, "formattedMessage"),
        call |-> IF Truthy(Field(data.results, "analyticsData"))
                 THEN Set(parseStructuredApiResponse(data.results, q))
                 ELSE NoSet]
  ELSE IF MatchAnswer(data)
  THEN [text |-> Field(Field(data.results, "answer"), "summary"),
        call |-> Set(parseStructuredApiResponse(data.results, q))]
  ELSE LET response == Or(Or(data.result, data.response), data.message) IN
       [text |-> response, call |-> parseApiResponseForVisualization(response, q)]

\* The request r completes with the text and the call of outcome
dv_Complete(r, data, outcome) ==
  /\ apiResponse' = outcome.text
  /\ visualizationData' = IF outcome.call.set THEN outcome.call.value
                          ELSE visualizationData
  /\ isAnalyzing' = FALSE
  /\ dv_inflight' = dv_inflight \ {r}
  /\ dv_last' = [qid |-> r.qid, query |-> r.query, data |-> data]
  /\ dv_dataFrom' = IF outcome.call.set THEN r.qid ELSE dv_dataFrom
  /\ UNCHANGED <<query, activeChart, sortOrder, dv_issued>>

\* A response arrives with the JSON body data
dv_response ==
  \E r \in dv_inflight, data \in VizPayloads :
    dv_Complete(r, data, handleSubmitOutcome(data, r.query))

\* The fetch rejects, or response.json() does
dv_failure ==
  \E r \in dv_inflight :
    dv_Complete(r, NotJson,
                [text |-> ConnectionError(<<"Failed to fetch">>), call |-> NoSet])

\* generateChartData(): the labels and the data of the chart, or Null
generateChartData ==
  IF visualizationData = Null \/ Len(visualizationData.data.events) = 0 THEN Null
  ELSE LET allEventData == visualizationData.data.events
           maxEvents == IF activeChart = "pie" THEN 15 ELSE 20
           shown == IF Len(allEventData) < maxEvents THEN Len(allEventData)
                    ELSE maxEvents
       IN [labels |-> [i \in 1..shown |-> allEventData[i].name],
           data |-> [i \in 1..shown |-> allEventData[i].count]]

\* The rows of the table view: one per record of visualizationData
tableRows ==
  IF visualizationData = Null THEN << >>
  ELSE [i \in DOMAIN visualizationData.data.events |->
          [name |-> visualizationData.data.events[i].name,
           source |-> visualizationData.data.events[i].source,
           count |-> visualizationData.data.events[i].count]]

(***************************************************************************)
(* The event analytics mapper applied to one `results` object.             *)
(***************************************************************************)
VARIABLES
  mp_results,   \* the results object handed to the mapper
  mp_output     \* what the mapper passed to setVisualizationData

mp_vars == <<mp_results, mp_output>>

\* Entries per analytics array
MaxEntries == 3

\* The mapper has not run yet
Pending == [t |-> "pending"]

\* The entries of an analytics array: counts above, at and below zero, as
\* number or as text, ties, and entries with fields missing
AnalyticsEntries ==
  { AnalyticsEntry(Str(<<"added", "_", "to", "_", "lists">>), Str(<<"contacts">>),
                   Num(3), Num(2), Num(100), Num(200)),
    AnalyticsEntry(Str(<<"email", "_", "unsubscribed">>), Str(<<"email">>),
                   Num(3), Num(0), Num(110), Num(210)),
    AnalyticsEntry(Str(<<"opened">>), Str(<<"email">>), Num(1), Num(1), Undef, Undef),
    AnalyticsEntry(Str(<<"clicked">>), Str(<<"email">>), Num(0), Num(0), Undef, Undef),
    AnalyticsEntry(Str(<<"bounced">>), Str(<<"email">>), Num(-1), Num(1), Undef, Undef),
    AnalyticsEntry(Undef, Undef, Str(<<"1", "2">>), Undef, Num(100), Num(200)),
    AnalyticsEntry(Undef, Str(<<"sms">>), Undef, Undef, Undef, Undef) }

RECURSIVE SeqsUpTo(_, _)
SeqsUpTo(S, n) ==
  IF n = 0 THEN {<< >>}
  ELSE LET shorter == SeqsUpTo(S, n - 1) IN
       shorter \cup {Append(s, e) : s \in shorter, e \in S}

MapperInputs ==
  { Obj([NoResults EXCEPT !.analytics = a, !.organization_id = org,
                          !.timeframe = tf]) :
      a \in {Arr(entries) : entries \in SeqsUpTo(AnalyticsEntries, MaxEntries)}
            \cup {Undef, Null, Str(<<"none">>), Obj([count |-> Num(1)])},
      org \in {Undef, Num(123)},
      tf \in {Undef, Str(<<"30d">>)} }

\* An entry of an analyticsData array
StructuredEntry(source, total_events, count, event_name, name, event_count) ==
  Obj([source |-> source, total_events |-> total_events, count |-> count,
       event_name |-> event_name, name |-> name, event_count |-> event_count])

\* The entries of an analyticsData array: the preferred field present and
\* truthy, present and falsy (0, ''), null or absent, next to the fallback field
StructuredEntries ==
  { StructuredEntry(Str(<<"contacts">>), Num(7), Num(2), Str(<<"opened">>),
                    Str(<<"mail", "_", "opened">>), Num(4)),
    StructuredEntry(Str(<<"email">>), Num(0), Num(5), Str(<< >>),
                    Str(<<"clicked">>), Num(0)),
    StructuredEntry(Str(<<"sms">>), Undef, Num(3), Undef, Str(<<"sent">>), Undef),
    StructuredEntry(Undef, Null, Num(6), Null, Str(<<"bounced">>), Null),
    StructuredEntry(Undef, Undef, Undef, Undef, Undef, Undef) }

StructuredInputs ==
  { Obj([NoResults EXCEPT !.formattedMessage = Str(<<"formatted">>),
                          !.analyticsData = a, !.queryType = qt]) :
      a \in {Arr(entries) : entries \in SeqsUpTo(StructuredEntries, MaxEntries)}
            \cup {Obj([count |-> Num(1)])},
      qt \in {Undef, Str(<<"source_analytics">>)} }

\* One entry of a narration: its numbered line and its count line
NarrationBlock(name, digits) ==
  <<"1.", " ", "**">> \o name \o <<"**", " ", "(Source:", " ", "email", ")", "\n",
    " ", " ", "-", " ", "Events:", " ">> \o digits \o <<"\n">>

\* The entries of a narration: two names, one of them written in two ways,
\* with the counts 100, 150 and 0
NarrationBlocks ==
  { NarrationBlock(name, digits) :
      name \in {<<"opened">>, <<"added", "_", "to", "_", "lists">>,
                <<"added", " ", "to", " ", "lists">>},
      digits \in {<<"1", "0", "0">>, <<"1", "5", "0">>, <<"0">>} }

RECURSIVE Concat(_)
Concat(seqs) == IF seqs = << >> THEN << >> ELSE Head(seqs) \o Concat(Tail(seqs))

\* The fallback texts the text mapper is read on
NarrationInputs ==
  { Str(<<"Found", " ", "events", "\n", "\n">> \o Concat(blocks)) :
      blocks \in SeqsUpTo(NarrationBlocks, MaxEntries) }

mp_Init ==
  /\ mp_results \in MapperInputs \cup StructuredInputs \cup NarrationInputs
  /\ mp_output = Pending

mp_parseEventAnalyticsResponse ==
  /\ mp_output = Pending
  /\ mp_results.t = "object"
  /\ ~Truthy(mp_results.v.analyticsData)
  /\ mp_output' = parseEventAnalyticsResponse(mp_results)
  /\ UNCHANGED mp_results

\* handleSubmit hands results with a formattedMessage and analyticsData to
\* parseStructuredApiResponse; q is the query of the render that submitted
mp_parseStructuredApiResponse ==
  /\ mp_output = Pending
  /\ mp_results.t = "object"
  /\ Truthy(mp_results.v.formattedMessage)
  /\ Truthy(mp_results.v.analyticsData)
  /\ \E q \in QueryValues : mp_output' = parseStructuredApiResponse(mp_results, q)
  /\ UNCHANGED mp_results

\* handleSubmit hands the fallback text to parseApiResponseForVisualization;
\* the output is the call of setVisualizationData it makes
mp_parseApiResponseForVisualization ==
  /\ mp_output = Pending
  /\ mp_results.t = "string"
  /\ \E q \in QueryValues :
       mp_output' = parseApiResponseForVisualization(mp_results, q)
  /\ UNCHANGED mp_results

(***************************************************************************)
(* GET /health: the configuration check and the upstream check.            *)
(***************************************************************************)
VARIABLES
  hl_env,        \* envConfig, loaded once when the module is loaded
  hl_pc,         \* "idle", "checking" (awaiting the upstream fetch), "responded"
  hl_validation, \* what validateConfiguration() returned to the handler
  hl_upstream,   \* what the fetch of checkServiceHealth came to
  hl_response    \* the response of the handler

hl_vars == <<hl_env, hl_pc, hl_validation, hl_upstream, hl_response>>

\* new URL(s) does not throw: s is a scheme followed by a host
ValidUrl(s) == Len(s) >= 2 /\ s[1] \in {"https://", "http://"}

\* envConfig: API_URL and PUBLIC_URL fall back to a default and are never
\* empty, but an environment variable may hold any text
HealthEnvs ==
  [APP_ENV : {"local", "staging", "production"},
   API_URL : {<<"https://", "unified-ai-engine-api.brevo.tech">>, <<"api.local">>},
   PUBLIC_URL : {<<"http://", "localhost:3001">>, <<"localhost">>},
   SENTRY_DSN : {Undef, Str(<<"https://", "sentry">>)},
   DEBUG_MODE : BOOLEAN]

\* validateConfiguration()
validateConfiguration(envConfig) ==
  LET errors ==
        (IF envConfig.API_URL = << >> THEN <<"API_URL is required">> ELSE << >>)
        \o (IF envConfig.PUBLIC_URL = << >> THEN <<"PUBLIC_URL is required">>
            ELSE << >>)
        \o (IF ~ValidUrl(envConfig.API_URL) THEN <<"API_URL must be a valid URL">>
            ELSE << >>)
        \o (IF ~ValidUrl(envConfig.PUBLIC_URL)
            THEN <<"PUBLIC_URL must be a valid URL">> ELSE << >>)
        \o (IF envConfig.APP_ENV = "production" /\ ~Truthy(envConfig.SENTRY_DSN)
            THEN <<"SENTRY_DSN is required for production environment">>
            ELSE << >>)
        \o (IF envConfig.APP_ENV = "production" /\ envConfig.DEBUG_MODE
            THEN <<"DEBUG_MODE should be false in production">> ELSE << >>)
  IN [isValid |-> Len(errors) = 0, errors |-> errors]

\* The statuses the upstream /health answers with
UpstreamStatuses == {200, 204, 301, 399, 400, 404, 500, 503}

\* checkServiceHealth: response.status >= 200 && response.status < 400
checkServiceHealth(status) == status >= 200 /\ status < 400

\* A status code that looks at the upstream check alone
statusCode_upstreamOnly(validation, accessible) ==
  IF accessible THEN 200 ELSE 503

\* validation.isValid && healthData.services.api.accessible ? 200 : 503
statusCode(validation, accessible) ==
  IF validation.isValid /\ accessible THEN 200 ELSE 503

\* NextResponse.json(healthData, {status: statusCode})
HealthResponse(validation, accessible) ==
  [status |-> statusCode(validation, accessible),
   body |-> [status |-> "healthy",
             configuration |-> [isValid |-> validation.isValid,
                                errors |-> Len(validation.errors)],
             accessible |-> accessible]]

hl_Init ==
  /\ hl_env \in HealthEnvs
  /\ hl_pc = "idle"
  /\ hl_validation = Undef
  /\ hl_upstream = Undef
  /\ hl_response = Undef

\* GET up to the await of checkServiceHealth
GET_begin ==
  /\ hl_pc = "idle"
  /\ hl_validation' = validateConfiguration(hl_env)
  /\ hl_pc' = "checking"
  /\ UNCHANGED <<hl_env, hl_upstream, hl_response>>

\* The upstream answers: the rest of GET
GET_upstreamAnswers ==
  /\ hl_pc = "checking"
  /\ ValidUrl(hl_env.API_URL)
  /\ \E status \in UpstreamStatuses :
       /\ hl_upstream' = Num(status)
       /\ hl_response' = HealthResponse(hl_validation, checkServiceHealth(status))
  /\ hl_pc' = "responded"
  /\ UNCHANGED <<hl_env, hl_validation>>

\* The fetch rejects (bad URL, no network) or the 5 s timer aborts it:
\* checkServiceHealth returns false
GET_upstreamFails ==
  /\ hl_pc = "checking"
  /\ \E reason \in {"rejected", "aborted"} : hl_upstream' = Throw(<<reason>>)
  /\ hl_response' = HealthResponse(hl_validation, FALSE)
  /\ hl_pc' = "responded"
  /\ UNCHANGED <<hl_env, hl_validation>>

\* An exception inside the try block: the catch block answers
GET_catch ==
  /\ hl_pc \in {"idle", "checking"}
  /\ hl_response' = [status |-> 503,
                     body |-> [status |-> "unhealthy", error |-> "Unknown error"]]
  /\ hl_pc' = "responded"
  /\ UNCHANGED <<hl_env, hl_validation, hl_upstream>>

(***************************************************************************)
(* WorkflowAnalytics, which lives while the workflows tab is shown, and    *)
(* the callback it leaves on window for the chat.                          *)
(***************************************************************************)
VARIABLES
  wa_activeSection,
  wa_workflowData,
  wa_eventAnalyticsData,
  wa_error,
  wa_isLoading,
  wa_inflight,   \* the fetches of WorkflowAnalytics awaiting a response
  wa_issued,     \* how many fetches WorkflowAnalytics has started
  wa_writer,     \* whose response wrote the state of WorkflowAnalytics last
  wa_due,        \* the payloads that took the get_event_analytics branch
                 \* while window.handleEventAnalyticsResponse was registered
  wa_calls,      \* the payloads the callback has been invoked with
  wa_uncaught    \* the errors thrown out of the timer callback

wa_state == <<wa_activeSection, wa_workflowData, wa_eventAnalyticsData, wa_error,
              wa_isLoading, wa_inflight, wa_issued, wa_writer>>
wa_vars == <<wa_state, wa_due, wa_calls, wa_uncaught>>

\* Fetches the user starts in WorkflowAnalytics per run of the model
MaxFetches == 2

\* The tabs of the chat view the callback claims need
WindowTabs == {"chat", "visualization", "workflows"}

\* The responses /api/chat gives: an event analytics answer and an error
WindowPayloads ==
  { AnalyticsPayload,
    [NoData EXCEPT !.success = Bool(FALSE), !.error = Str(<<"Backend error">>)] }

\* The results /api/analytics/events answers with: a mock with one entry
OwnResults ==
  Obj([NoResults EXCEPT
         !.organization_id = Num(0), !.timeframe = Str(<<"7d">>),
         !.analytics = Arr(<<AnalyticsEntry(Str(<<"sample", "_", "event">>),
                                            Str(<<"sample", "_", "source">>),
                                            Num(0), Num(0), Num(Epoch), Num(Epoch))>>),
         !.total_event_types = Num(0)])

\* The useState initial values of WorkflowAnalytics
wa_Fresh ==
  /\ wa_activeSection' = "workflows"
  /\ wa_workflowData' = Null
  /\ wa_eventAnalyticsData' = Null
  /\ wa_error' = Null

wa_Init ==
  /\ wa_activeSection = "workflows"
  /\ wa_workflowData = Null
  /\ wa_eventAnalyticsData = Null
  /\ wa_error = Null
  /\ wa_isLoading = FALSE
  /\ wa_inflight = {}
  /\ wa_issued = 0
  /\ wa_writer = "none"
  /\ wa_due = << >>
  /\ wa_calls = << >>
  /\ wa_uncaught = << >>

\* fetchWorkflowAnalytics() and fetchEventAnalytics() up to the fetch
wa_StartFetch(section, by) ==
  /\ wa_isLoading' = TRUE
  /\ wa_error' = Null
  /\ wa_inflight' = wa_inflight \cup {[fid |-> wa_issued + 1, section |-> section, by |-> by]}
  /\ wa_issued' = wa_issued + 1

\* setActiveTab(tab) with WorkflowAnalytics: it mounts when its tab is shown
\* (the effect on activeSection fetches the workflows) and unmounts when the
\* tab is left, after which its pending fetches set nothing
wn_setActiveTab(tab) ==
  /\ setActiveTab(tab)
  /\ IF tab = "workflows" /\ activeTab # "workflows"
     THEN /\ wa_issued < MaxFetches
          /\ wa_activeSection' = "workflows"
          /\ wa_workflowData' = Null
          /\ wa_eventAnalyticsData' = Null
          /\ wa_StartFetch("workflows", "mount")
          /\ wa_writer' = "none"
     ELSE IF tab # "workflows" /\ activeTab = "workflows"
     THEN /\ wa_Fresh
          /\ wa_isLoading' = FALSE
          /\ wa_inflight' = {}
          /\ wa_writer' = "none"
          /\ UNCHANGED wa_issued
     ELSE UNCHANGED wa_state
  /\ UNCHANGED <<wa_due, wa_calls, wa_uncaught>>

\* onClick of a section button; the effect on activeSection fetches its data
setActiveSection ==
  /\ activeTab = "workflows"
  /\ wa_issued < MaxFetches
  /\ \E section \in {"workflows", "events"} :
       /\ section # wa_activeSection
       /\ wa_activeSection' = section
       /\ wa_StartFetch(section, "user")
  /\ UNCHANGED <<wa_workflowData, wa_eventAnalyticsData, wa_writer, wa_due, wa_calls,
                 wa_uncaught>>

\* A fetch of WorkflowAnalytics settles: the rest of fetchWorkflowAnalytics
\* or fetchEventAnalytics
wa_fetchSettles ==
  /\ \E r \in wa_inflight, succeeded \in BOOLEAN :
       /\ wa_inflight' = wa_inflight \ {r}
       /\ IF succeeded /\ r.section = "events"
          THEN /\ wa_eventAnalyticsData' = OwnResults
               /\ UNCHANGED <<wa_workflowData, wa_error>>
          ELSE IF succeeded
          THEN /\ wa_workflowData' = Str(<<"workflows">>)
               /\ UNCHANGED <<wa_eventAnalyticsData, wa_error>>
          ELSE /\ wa_error' = Str(<<"Failed to fetch ", r.section, " analytics">>)
               /\ UNCHANGED <<wa_workflowData, wa_eventAnalyticsData>>
  /\ wa_isLoading' = FALSE
  /\ wa_writer' = "WorkflowAnalytics"
  /\ UNCHANGED <<wa_activeSection, wa_issued, wa_due, wa_calls, wa_uncaught>>

\* A response of /api/chat arrives: the rest of handleSubmit or of
\* handleSubmitMessage
wn_chatResponse ==
  \E r \in inflight, data \in WindowPayloads :
    /\ ReceiveData(r, data)
    /\ inflight' = inflight \ {r}
    /\ wa_due' = IF /\ Truthy(data.success) /\ MatchAnalytics(data)
                    /\ ~MatchFormatted(data) /\ ~MatchTrends(data)
                    /\ HandlerRegistered
                 THEN Append(wa_due, data) ELSE wa_due
    /\ UNCHANGED <<activeTab, inputValue, issued, now, wa_state, wa_calls,
                   wa_uncaught>>

\* The setTimeout callback of handleSubmit runs:
\* window.handleEventAnalyticsResponse(data), a TypeError when
\* WorkflowAnalytics has unmounted and deleted it
timerFires ==
  /\ timers # << >>
  /\ timers' = Tail(timers)
  /\ LET response == Head(timers) IN
     IF ~HandlerRegistered
     THEN /\ wa_uncaught' =
               Append(wa_uncaught,
                      <<"window.handleEventAnalyticsResponse is not a function">>)
          /\ UNCHANGED <<wa_state, wa_due, wa_calls>>
     ELSE /\ wa_calls' = Append(wa_calls, response)
          /\ UNCHANGED wa_uncaught
          /\ wa_writer' = "ChatInterface"
          /\ IF Truthy(response.success) /\ Truthy(response.results)
             THEN /\ wa_eventAnalyticsData' = response.results
                  /\ wa_activeSection' = "events"
                  /\ IF wa_activeSection # "events"
                     THEN wa_StartFetch("events", "effect")
                     ELSE /\ wa_error' = Null
                          /\ UNCHANGED <<wa_isLoading, wa_inflight, wa_issued>>
                  /\ UNCHANGED wa_workflowData
             ELSE /\ wa_error' = Or(response.message,
                                    Str(<<"Failed to process event analytics">>))
                  /\ UNCHANGED <<wa_activeSection, wa_workflowData,
                                 wa_eventAnalyticsData, wa_isLoading, wa_inflight,
                                 wa_issued>>
          /\ UNCHANGED wa_due
  /\ UNCHANGED <<activeTab, messages, inputValue, isLoading, conversationId,
                 inflight, issued, now>>

(***************************************************************************)
(* The chat view while the clock advances.                                 *)
(***************************************************************************)
VARIABLES
  ck_delivered   \* history: per answered request, its payload and the
                 \* component state the handler normalized it in

ck_vars == <<ck_delivered>>

\* Milliseconds that pass per run of the model
MaxTicks == 2

\* The responses the timed chat view is given
ClockPayloads ==
  { [NoData EXCEPT !.success = Bool(TRUE), !.message = Str(<<"msg">>),
                   !.conversation_id = Str(<<"wf_B">>)],
    [NoData EXCEPT !.success = Bool(FALSE),
                   !.error = Str(<<"Backend error: boom">>)],
    AnalyticsPayload }

ck_Init == ck_delivered = {}

\* Date.now() returns the next millisecond
tick ==
  /\ now < Epoch + MaxTicks
  /\ now' = now + 1
  /\ UNCHANGED <<activeTab, messages, inputValue, isLoading, conversationId,
                 inflight, issued, timers>>

\* A response arrives with the JSON body data
ck_chatResponse ==
  \E r \in inflight, data \in ClockPayloads :
    /\ ReceiveData(r, data)
    /\ inflight' = inflight \ {r}
    /\ ck_delivered' = ck_delivered \cup
         {[rid |-> r.rid, by |-> r.by, data |-> data, now |-> now,
           conversationId |-> conversationId, history |-> Len(messages)]}
    /\ UNCHANGED <<activeTab, inputValue, issued, now>>

\* The fetch rejects, or response.json() does
ck_chatFailure == chatFailure /\ UNCHANGED ck_delivered

(***************************************************************************)
(* The identifier forms: ClientAnalytics, AutomationEngineLogs and         *)
(* StuckContactAnalysis.  One of them is mounted, under its tab.           *)
(***************************************************************************)
VARIABLES
  fm_tab,                 \* the tab shown, which names the mounted view
  fm_organizationId,      \* organizationId, contactInput.organizationId
  fm_workflowId,          \* contactInput.workflowId
  fm_contactId,           \* contactInput.contactId
  fm_stuckCountOrgId,
  fm_batchContacts,
  fm_isLoading,
  fm_error,
  fm_stuckCountLoading,
  fm_stuckCountError,
  fm_inflight,            \* the requests awaiting their response
  fm_issued,              \* how many requests have been started
  fm_last                 \* history: the last handler run and what it was given

fm_fields ==
  <<fm_organizationId, fm_workflowId, fm_contactId, fm_stuckCountOrgId,
    fm_batchContacts>>

fm_vars ==
  <<fm_tab, fm_fields, fm_isLoading, fm_error, fm_stuckCountLoading,
    fm_stuckCountError, fm_inflight, fm_issued, fm_last>>

FormTabs == {"client-analytics", "automation-logs", "stuck-analysis"}

\* What the user types into an identifier field and into the batch textarea
IdTexts == {<< >>, <<" ">>, <<"4694108">>}
BatchTexts ==
  { << >>, <<" ", "\n">>, <<"1", ",", "2">>, <<"1", ",", " ", ",", "3">>,
    <<",", "2", ",", "3", "\n", "1", ",", "2", ",", "3">> }

NoTrigger == [handler |-> "none", contacts |-> {}, requested |-> FALSE]

\* s.split(sep): the pieces of s between the separators, cur the one being read
RECURSIVE SplitOn(_, _, _)
SplitOn(s, sep, cur) ==
  IF s = << >> THEN <<cur>>
  ELSE IF Head(s) = sep THEN <<cur>> \o SplitOn(Tail(s), sep, << >>)
  ELSE SplitOn(Tail(s), sep, Append(cur, Head(s)))

\* const [organization_id, workflow_id, contact_id] = line.trim().split(',')
ContactOfLine(line) ==
  LET parts == SplitOn(Trim(line), ",", << >>)
      at(i) == IF i <= Len(parts) THEN Str(parts[i]) ELSE Undef
  IN [organization_id |-> at(1), workflow_id |-> at(2), contact_id |-> at(3)]

\* lines.map(...).filter(contact => all three fields) of analyzeBatchContacts
ParseContacts(text) ==
  LET lines == SplitOn(Trim(text), "\n", << >>)
      contacts == [i \in DOMAIN lines |-> ContactOfLine(lines[i])]
      whole(c) == /\ Truthy(c.organization_id) /\ Truthy(c.workflow_id)
                  /\ Truthy(c.contact_id)
  IN SelectSeq(contacts, whole)

\* The mount of a view: its useState defaults, and for StuckContactAnalysis
\* the count lookup its mount effect starts for the default organization
fm_Mount(tab) ==
  /\ fm_tab = tab
  /\ fm_organizationId = << >>
  /\ fm_workflowId = << >>
  /\ fm_contactId = << >>
  /\ fm_stuckCountOrgId = <<"4694108">>
  /\ fm_batchContacts = << >>
  /\ fm_isLoading = FALSE
  /\ fm_error = Null
  /\ fm_stuckCountError = Null
  /\ fm_stuckCountLoading = (tab = "stuck-analysis")
  /\ fm_inflight = IF tab = "stuck-analysis"
                   THEN {[fid |-> 1, handler |-> "fetchStuckContactCount",
                          body |-> <<Str(<<"4694108">>)>>]}
                   ELSE {}
  /\ fm_issued = IF tab = "stuck-analysis" THEN 1 ELSE 0
  /\ fm_last = NoTrigger

fm_Init == \E tab \in FormTabs : fm_Mount(tab)

\* No form is mounted
fm_Idle ==
  /\ fm_tab = "chat"
  /\ fm_organizationId = << >> /\ fm_workflowId = << >> /\ fm_contactId = << >>
  /\ fm_stuckCountOrgId = <<"4694108">> /\ fm_batchContacts = << >>
  /\ fm_isLoading = FALSE /\ fm_error = Null
  /\ fm_stuckCountLoading = FALSE /\ fm_stuckCountError = Null
  /\ fm_inflight = {} /\ fm_issued = 0 /\ fm_last = NoTrigger

\* The request a handler sends
fm_Send(handler, body) ==
  /\ fm_inflight' = fm_inflight \cup
       {[fid |-> fm_issued + 1, handler |-> handler, body |-> body]}
  /\ fm_issued' = fm_issued + 1

\* onChange of the organization id input of either analytics view
setOrganizationId ==
  /\ fm_tab \in {"client-analytics", "automation-logs"}
  /\ \E v \in IdTexts : fm_organizationId' = v
  /\ UNCHANGED <<fm_tab, fm_workflowId, fm_contactId, fm_stuckCountOrgId,
                 fm_batchContacts, fm_isLoading, fm_error, fm_stuckCountLoading,
                 fm_stuckCountError, fm_inflight, fm_issued, fm_last>>

\* onChange of the count lookup's input
setStuckCountOrgId ==
  /\ fm_tab = "stuck-analysis"
  /\ \E v \in IdTexts : fm_stuckCountOrgId' = v
  /\ UNCHANGED <<fm_tab, fm_organizationId, fm_workflowId, fm_contactId,
                 fm_batchContacts, fm_isLoading, fm_error, fm_stuckCountLoading,
                 fm_stuckCountError, fm_inflight, fm_issued, fm_last>>

\* onChange of the three inputs of the single analysis
setContactInput ==
  /\ fm_tab = "stuck-analysis"
  /\ \E v \in IdTexts :
       \/ fm_organizationId' = v /\ UNCHANGED <<fm_workflowId, fm_contactId>>
       \/ fm_workflowId' = v /\ UNCHANGED <<fm_organizationId, fm_contactId>>
       \/ fm_contactId' = v /\ UNCHANGED <<fm_organizationId, fm_workflowId>>
  /\ UNCHANGED <<fm_tab, fm_stuckCountOrgId, fm_batchContacts, fm_isLoading,
                 fm_error, fm_stuckCountLoading, fm_stuckCountError, fm_inflight,
                 fm_issued, fm_last>>

\* onChange of the batch textarea
setBatchContacts ==
  /\ fm_tab = "stuck-analysis"
  /\ \E v \in BatchTexts : fm_batchContacts' = v
  /\ UNCHANGED <<fm_tab, fm_organizationId, fm_workflowId, fm_contactId,
                 fm_stuckCountOrgId, fm_isLoading, fm_error,
                 fm_stuckCountLoading, fm_stuckCountError, fm_inflight,
                 fm_issued, fm_last>>

\* ClientAnalytics: a click on the fetch button, which is disabled while
\* loading and while the trimmed organization id is empty
handleFetchAnalytics ==
  /\ fm_tab = "client-analytics"
  /\ fm_issued < MaxFetches
  /\ ~(fm_isLoading \/ Trim(fm_organizationId) = << >>)
  /\ IF Trim(fm_organizationId) = << >>
     THEN /\ fm_error' = Str(<<"Please enter an Organization ID">>)
          /\ UNCHANGED <<fm_isLoading, fm_inflight, fm_issued>>
     ELSE /\ fm_isLoading' = TRUE
          /\ fm_error' = Null
          /\ fm_Send("handleFetchAnalytics", <<Str(Trim(fm_organizationId))>>)
  /\ fm_last' = [handler |-> "handleFetchAnalytics",
                 contacts |-> {<<fm_organizationId>>},
                 requested |-> fm_issued' > fm_issued]
  /\ UNCHANGED <<fm_tab, fm_fields, fm_stuckCountLoading, fm_stuckCountError>>

\* AutomationEngineLogs: a click on its button, disabled in the same way
fetchAutomationLogs ==
  /\ fm_tab = "automation-logs"
  /\ fm_issued < MaxFetches
  /\ ~(fm_isLoading \/ Trim(fm_organizationId) = << >>)
  /\ IF fm_organizationId = << >>
     THEN /\ fm_error' = Str(<<"Organization ID is required">>)
          /\ UNCHANGED <<fm_isLoading, fm_inflight, fm_issued>>
     ELSE /\ fm_isLoading' = TRUE
          /\ fm_error' = Null
          /\ fm_Send("fetchAutomationLogs", <<Str(Trim(fm_organizationId))>>)
  /\ fm_last' = [handler |-> "fetchAutomationLogs",
                 contacts |-> {<<fm_organizationId>>},
                 requested |-> fm_issued' > fm_issued]
  /\ UNCHANGED <<fm_tab, fm_fields, fm_stuckCountLoading, fm_stuckCountError>>

\* StuckContactAnalysis: a click on Get Count, disabled while the lookup loads
fetchStuckContactCount ==
  /\ fm_tab = "stuck-analysis"
  /\ fm_issued < MaxFetches
  /\ ~fm_stuckCountLoading
  /\ IF Trim(fm_stuckCountOrgId) = << >>
     THEN /\ fm_stuckCountError' = Str(<<"Please enter an organization ID">>)
          /\ UNCHANGED <<fm_stuckCountLoading, fm_inflight, fm_issued>>
     ELSE /\ fm_stuckCountLoading' = TRUE
          /\ fm_stuckCountError' = Null
          /\ fm_Send("fetchStuckContactCount", <<Str(fm_stuckCountOrgId)>>)
  /\ fm_last' = [handler |-> "fetchStuckContactCount",
                 contacts |-> {<<fm_stuckCountOrgId>>},
                 requested |-> fm_issued' > fm_issued]
  /\ UNCHANGED <<fm_tab, fm_fields, fm_isLoading, fm_error>>

\* A click on Analyze Contact, disabled while loading.  The guard of
\* apiClient.analysis.analyzeStuckContact repeats the handler's
analyzeStuckContact ==
  /\ fm_tab = "stuck-analysis"
  /\ fm_issued < MaxFetches
  /\ ~fm_isLoading
  /\ IF fm_organizationId = << >> \/ fm_workflowId = << >> \/ fm_contactId = << >>
     THEN /\ fm_error' = Str(<<"Please fill in all required fields">>)
          /\ UNCHANGED <<fm_isLoading, fm_inflight, fm_issued>>
     ELSE /\ fm_isLoading' = TRUE
          /\ fm_error' = Null
          /\ fm_Send("analyzeStuckContact",
                     <<Str(fm_organizationId), Str(fm_workflowId),
                       Str(fm_contactId)>>)
  /\ fm_last' = [handler |-> "analyzeStuckContact",
                 contacts |-> {<<fm_organizationId, fm_workflowId, fm_contactId>>},
                 requested |-> fm_issued' > fm_issued]
  /\ UNCHANGED <<fm_tab, fm_fields, fm_stuckCountLoading, fm_stuckCountError>>

\* A click on Analyze Batch, disabled while loading.  Without a whole
\* contact the try block returns and its finally clears isLoading at once
analyzeBatchContacts ==
  LET contacts == ParseContacts(fm_batchContacts) IN
  /\ fm_tab = "stuck-analysis"
  /\ fm_issued < MaxFetches
  /\ ~fm_isLoading
  /\ IF Trim(fm_batchContacts) = << >>
     THEN /\ fm_error' = Str(<<"Please enter contact data">>)
          /\ UNCHANGED <<fm_isLoading, fm_inflight, fm_issued>>
     ELSE IF Len(contacts) = 0
     THEN /\ fm_error' = Str(<<"No valid contacts found.">>)
          /\ fm_isLoading' = FALSE
          /\ UNCHANGED <<fm_inflight, fm_issued>>
     ELSE /\ fm_isLoading' = TRUE
          /\ fm_error' = Null
          /\ fm_Send("analyzeBatchContacts", contacts)
  /\ fm_last' = [handler |-> "analyzeBatchContacts",
                 contacts |-> { <<Text(c.organization_id), Text(c.workflow_id),
                                  Text(c.contact_id)>> :
                                c \in {contacts[i] : i \in DOMAIN contacts} },
                 requested |-> fm_issued' > fm_issued]
  /\ UNCHANGED <<fm_tab, fm_fields, fm_stuckCountLoading, fm_stuckCountError>>

\* A request settles: the rest of the handler's try block, or its catch
\* block, and its finally
fm_settles ==
  \E r \in fm_inflight, ok \in BOOLEAN :
    /\ fm_inflight' = fm_inflight \ {r}
    /\ IF r.handler = "fetchStuckContactCount"
       THEN /\ fm_stuckCountLoading' = FALSE
            /\ fm_stuckCountError' =
                 IF ok THEN fm_stuckCountError
                 ELSE Str(<<"Failed to fetch stuck contact count">>)
            /\ UNCHANGED <<fm_isLoading, fm_error>>
       ELSE /\ fm_isLoading' = FALSE
            /\ fm_error' = IF ok THEN fm_error ELSE Str(<<"Network error">>)
            /\ UNCHANGED <<fm_stuckCountLoading, fm_stuckCountError>>
    /\ UNCHANGED <<fm_tab, fm_fields, fm_issued, fm_last>>

\* The error message and the loading flag of the handler last run
LastError ==
  IF fm_last.handler = "fetchStuckContactCount" THEN fm_stuckCountError
  ELSE fm_error
LastLoading ==
  IF fm_last.handler = "fetchStuckContactCount" THEN fm_stuckCountLoading
  ELSE fm_isLoading

(***************************************************************************)
(* apiRequest: one call of the API client's request function.              *)
(***************************************************************************)
VARIABLES
  ar_endpoint,   \* the endpoint and method the call was made with
  ar_pc,         \* "start", "fetching", "parsing", "returned" or "thrown"
  ar_timer,      \* the timeout timer: "none", "armed", "fired" or "cleared"
  ar_aborted,    \* controller.signal.aborted
  ar_attempts,   \* calls of fetch made
  ar_response,   \* the response fetch resolved with, or Null
  ar_outcome,    \* what the call returned or threw, or Null
  ar_cause       \* history: why the call failed, "none" while it has not

ar_vars ==
  <<ar_endpoint, ar_pc, ar_timer, ar_aborted, ar_attempts, ar_response,
    ar_outcome, ar_cause>>

\* The calls the endpoints of apiClient make
Endpoints ==
  { [path |-> <<"/api/analytics/stuck-contacts-count">>, method |-> "GET"],
    [path |-> <<"/api/analytics/total-stuck-contacts-count">>, method |-> "GET"],
    [path |-> <<"/api/analyze/stuck-contact">>, method |-> "POST"],
    [path |-> <<"/api/analyze/batch-stuck-contacts">>, method |-> "POST"],
    [path |-> <<"/health">>, method |-> "GET"] }

\* response.statusText
StatusText(status) ==
  CASE status = 200 -> <<"OK">>
    [] status = 404 -> <<"Not Found">>
    [] status = 500 -> <<"Internal Server Error">>
    [] status = 503 -> <<"Service Unavailable">>

\* The responses fetch resolves with: a status and what the body parses to
Responses ==
  { [status |-> s, body |-> b] :
      s \in {200, 404, 500, 503},
      b \in { Obj([success |-> Bool(TRUE), error |-> Undef]),
              Obj([success |-> Bool(FALSE), error |-> Str(<<"Backend says no">>)]),
              Obj([success |-> Bool(FALSE), error |-> Str(<< >>)]),
              Null, NotJson } }

\* new ApiError(status, message, response)
ApiError(status, message, response) ==
  [t |-> "ApiError", status |-> status, message |-> message,
   response |-> response]

\* The catch block of apiRequest for a thrown value that is no ApiError:
\* 408 for an AbortError, 500 with the error's message for everything else
Classify(error) ==
  IF error.name = "AbortError"
  THEN ApiError(408, <<"Request timeout - please try again">>, Undef)
  ELSE ApiError(500, Or(Str(error.message), Str(<<"Network error occurred">>)).v,
                Undef)

ar_Init ==
  /\ ar_endpoint \in Endpoints
  /\ ar_pc = "start"
  /\ ar_timer = "none"
  /\ ar_aborted = FALSE
  /\ ar_attempts = 0
  /\ ar_response = Null
  /\ ar_outcome = Null
  /\ ar_cause = "none"

\* No call is being made
ar_Idle ==
  /\ ar_endpoint = [path |-> <<"/health">>, method |-> "GET"]
  /\ ar_pc = "start" /\ ar_timer = "none" /\ ar_aborted = FALSE
  /\ ar_attempts = 0 /\ ar_response = Null /\ ar_outcome = Null
  /\ ar_cause = "none"

\* apiRequest up to `await fetch(url, requestConfig)`
apiRequest ==
  /\ ar_pc = "start"
  /\ ar_timer' = "armed"
  /\ ar_attempts' = ar_attempts + 1
  /\ ar_pc' = "fetching"
  /\ UNCHANGED <<ar_endpoint, ar_aborted, ar_response, ar_outcome, ar_cause>>

\* The timer runs its callback, controller.abort()
timeoutFires ==
  /\ ar_timer = "armed"
  /\ ar_timer' = "fired"
  /\ ar_aborted' = TRUE
  /\ UNCHANGED <<ar_endpoint, ar_pc, ar_attempts, ar_response, ar_outcome,
                 ar_cause>>

\* fetch resolves; clearTimeout(timeoutId)
fetchResolves ==
  /\ ar_pc = "fetching"
  /\ ~ar_aborted
  /\ \E response \in Responses : ar_response' = response
  /\ ar_timer' = "cleared"
  /\ ar_pc' = "parsing"
  /\ UNCHANGED <<ar_endpoint, ar_aborted, ar_attempts, ar_outcome, ar_cause>>

\* fetch rejects, with an AbortError when the signal has aborted and with
\* a TypeError otherwise; the catch block
fetchRejects ==
  /\ ar_pc = "fetching"
  /\ ar_timer' = IF ar_timer = "armed" THEN "cleared" ELSE ar_timer
  /\ ar_outcome' =
       IF ar_aborted
       THEN Classify([name |-> "AbortError",
                      message |-> <<"The operation was aborted.">>])
       ELSE Classify([name |-> "TypeError", message |-> <<"Failed to fetch">>])
  /\ ar_cause' = IF ar_aborted THEN "timeout" ELSE "network"
  /\ ar_pc' = "thrown"
  /\ UNCHANGED <<ar_endpoint, ar_aborted, ar_attempts, ar_response>>

\* `await response.json()` settles, and the rest of the try block with the
\* catch block behind it
jsonSettles ==
  LET status == ar_response.status
      data == ar_response.body
      ok == status >= 200 /\ status <= 299
  IN
  /\ ar_pc = "parsing"
  /\ IF data = NotJson
     THEN /\ ar_outcome' = Classify([name |-> "SyntaxError",
                                     message |-> <<"Unexpected token">>])
          /\ ar_cause' = "body"
          /\ ar_pc' = "thrown"
     ELSE IF ok
     THEN /\ ar_outcome' = data
          /\ ar_cause' = "none"
          /\ ar_pc' = "returned"
     ELSE /\ ar_outcome' =
               IF data.t \in {"null", "undefined"}
               THEN Classify([name |-> "TypeError",
                              message |-> <<"Cannot read properties of null">>])
               ELSE ApiError(status,
                             Or(Field(data, "error"), Str(StatusText(status))).v,
                             data)
          /\ ar_cause' = "status"
          /\ ar_pc' = "thrown"
  /\ UNCHANGED <<ar_endpoint, ar_timer, ar_aborted, ar_attempts, ar_response>>

(***************************************************************************)
(* Specifications.                                                         *)
(***************************************************************************)
vars ==
  <<rt_vars, nz_vars, ch_vars, dv_vars, mp_vars, hl_vars, wa_vars, ck_vars,
    fm_vars, ar_vars>>

\* The mapper variables while another part of the program is looked at
mp_Idle == mp_results = Undef /\ mp_output = Pending
hl_Idle ==
  /\ hl_env = Undef /\ hl_pc = "idle" /\ hl_validation = Undef
  /\ hl_upstream = Undef /\ hl_response = Undef
nz_Idle == nz_data = NoData /\ nz_handler = "none" /\ nz_message = Undef

\* The /api/chat route answering one request
RouteInit == rt_Init /\ nz_Idle /\ ch_Init /\ dv_Init /\ mp_Idle /\ hl_Idle /\ wa_Init /\ ck_Init /\ fm_Idle /\ ar_Idle

RouteNext ==
  \/ POST_receive /\ UNCHANGED <<ck_vars, fm_vars, ar_vars, nz_vars, ch_vars, dv_vars, mp_vars, hl_vars, wa_vars>>
  \/ POST_backendAnswer /\ UNCHANGED <<ck_vars, fm_vars, ar_vars, nz_vars, ch_vars, dv_vars, mp_vars, hl_vars, wa_vars>>
  \/ POST_fetchFails /\ UNCHANGED <<ck_vars, fm_vars, ar_vars, nz_vars, ch_vars, dv_vars, mp_vars, hl_vars, wa_vars>>

SpecRoute == RouteInit /\ [][RouteNext]_vars

\* The normalizer on one payload
NormalizerInit == nz_Init /\ rt_Init /\ ch_Init /\ dv_Init /\ mp_Idle /\ hl_Idle /\ wa_Init /\ ck_Init /\ fm_Idle /\ ar_Idle

NormalizerNext ==
  \/ nz_handleSubmit /\ UNCHANGED <<ck_vars, fm_vars, ar_vars, rt_vars, ch_vars, dv_vars, mp_vars, hl_vars, wa_vars>>
  \/ nz_handleSubmitMessage /\ UNCHANGED <<ck_vars, fm_vars, ar_vars, rt_vars, ch_vars, dv_vars, mp_vars, hl_vars, wa_vars>>

SpecNormalizer == NormalizerInit /\ [][NormalizerNext]_vars

\* The chat view
ChatInit == ch_Init /\ rt_Init /\ nz_Idle /\ dv_Init /\ mp_Idle /\ hl_Idle /\ wa_Init /\ ck_Init /\ fm_Idle /\ ar_Idle

ChatNext ==
  \/ (\E tab \in ChatTabs : setActiveTab(tab)) /\ UNCHANGED <<ck_vars, fm_vars, ar_vars, rt_vars, nz_vars, mp_vars, hl_vars, wa_vars>>
  \/ setInputValue /\ UNCHANGED <<ck_vars, fm_vars, ar_vars, rt_vars, nz_vars, dv_vars, mp_vars, hl_vars, wa_vars>>
  \/ handleQuickAction /\ UNCHANGED <<ck_vars, fm_vars, ar_vars, rt_vars, nz_vars, dv_vars, mp_vars, hl_vars, wa_vars>>
  \/ submitButton /\ UNCHANGED <<ck_vars, fm_vars, ar_vars, rt_vars, nz_vars, dv_vars, mp_vars, hl_vars, wa_vars>>
  \/ handleKeyDown /\ UNCHANGED <<ck_vars, fm_vars, ar_vars, rt_vars, nz_vars, dv_vars, mp_vars, hl_vars, wa_vars>>
  \/ dv_handleQuickAction /\ UNCHANGED <<ck_vars, fm_vars, ar_vars, rt_vars, nz_vars, mp_vars, hl_vars, wa_vars>>
  \/ (\E data \in ChatPayloads : chatResponse(data))
       /\ UNCHANGED <<ck_vars, fm_vars, ar_vars, rt_vars, nz_vars, dv_vars, mp_vars, hl_vars, wa_vars>>
  \/ chatFailure /\ UNCHANGED <<ck_vars, fm_vars, ar_vars, rt_vars, nz_vars, dv_vars, mp_vars, hl_vars, wa_vars>>

SpecChat == ChatInit /\ [][ChatNext]_vars

\* Every fetch settles: the browser resolves or rejects it
chatSettles ==
  /\ (\E data \in ChatPayloads : chatResponse(data)) \/ chatFailure
  /\ UNCHANGED <<ck_vars, fm_vars, ar_vars, rt_vars, nz_vars, dv_vars, mp_vars, hl_vars, wa_vars>>

FairSpecChat == ChatInit /\ [][ChatNext]_vars /\ WF_vars(chatSettles)

\* The visualization view, from the moment its tab is shown
VizInit ==
  /\ activeTab = "visualization"
  /\ messages = <<WelcomeMessage>> /\ inputValue = << >> /\ isLoading = FALSE
  /\ conversationId = Null /\ inflight = {} /\ issued = 0 /\ timers = << >>
  /\ now = Epoch
  /\ dv_Init /\ rt_Init /\ nz_Idle /\ mp_Idle /\ hl_Idle /\ wa_Init /\ ck_Init /\ fm_Idle /\ ar_Idle

VizNext ==
  \/ setQuery /\ UNCHANGED <<ck_vars, fm_vars, ar_vars, rt_vars, nz_vars, ch_vars, mp_vars, hl_vars, wa_vars>>
  \/ setActiveChart /\ UNCHANGED <<ck_vars, fm_vars, ar_vars, rt_vars, nz_vars, ch_vars, mp_vars, hl_vars, wa_vars>>
  \/ handleSort /\ UNCHANGED <<ck_vars, fm_vars, ar_vars, rt_vars, nz_vars, ch_vars, mp_vars, hl_vars, wa_vars>>
  \/ clearApiResponse /\ UNCHANGED <<ck_vars, fm_vars, ar_vars, rt_vars, nz_vars, ch_vars, mp_vars, hl_vars, wa_vars>>
  \/ dv_handleSubmit /\ UNCHANGED <<ck_vars, fm_vars, ar_vars, rt_vars, nz_vars, ch_vars, mp_vars, hl_vars, wa_vars>>
  \/ dv_handleQuickAction /\ UNCHANGED <<ck_vars, fm_vars, ar_vars, rt_vars, nz_vars, mp_vars, hl_vars, wa_vars>>
  \/ dv_response /\ UNCHANGED <<ck_vars, fm_vars, ar_vars, rt_vars, nz_vars, ch_vars, mp_vars, hl_vars, wa_vars>>
  \/ dv_failure /\ UNCHANGED <<ck_vars, fm_vars, ar_vars, rt_vars, nz_vars, ch_vars, mp_vars, hl_vars, wa_vars>>

SpecViz == VizInit /\ [][VizNext]_vars

\* The event analytics mapper on one results object
MapperInit == mp_Init /\ rt_Init /\ nz_Idle /\ ch_Init /\ dv_Init /\ hl_Idle /\ wa_Init /\ ck_Init /\ fm_Idle /\ ar_Idle

MapperNext ==
  \/ mp_parseEventAnalyticsResponse /\ UNCHANGED <<ck_vars, fm_vars, ar_vars, rt_vars, nz_vars, ch_vars, dv_vars, hl_vars, wa_vars>>
  \/ mp_parseStructuredApiResponse /\ UNCHANGED <<ck_vars, fm_vars, ar_vars, rt_vars, nz_vars, ch_vars, dv_vars, hl_vars, wa_vars>>
  \/ mp_parseApiResponseForVisualization
       /\ UNCHANGED <<ck_vars, fm_vars, ar_vars, rt_vars, nz_vars, ch_vars, dv_vars, hl_vars, wa_vars>>

SpecMapper == MapperInit /\ [][MapperNext]_vars

\* GET /health answering one request
HealthInit == hl_Init /\ rt_Init /\ nz_Idle /\ ch_Init /\ dv_Init /\ mp_Idle /\ wa_Init /\ ck_Init /\ fm_Idle /\ ar_Idle

HealthNext ==
  \/ GET_begin /\ UNCHANGED <<ck_vars, fm_vars, ar_vars, rt_vars, nz_vars, ch_vars, dv_vars, mp_vars, wa_vars>>
  \/ GET_upstreamAnswers
       /\ UNCHANGED <<ck_vars, fm_vars, ar_vars, rt_vars, nz_vars, ch_vars, dv_vars, mp_vars, wa_vars>>
  \/ GET_upstreamFails
       /\ UNCHANGED <<ck_vars, fm_vars, ar_vars, rt_vars, nz_vars, ch_vars, dv_vars, mp_vars, wa_vars>>
  \/ GET_catch /\ UNCHANGED <<ck_vars, fm_vars, ar_vars, rt_vars, nz_vars, ch_vars, dv_vars, mp_vars, wa_vars>>

SpecHealth == HealthInit /\ [][HealthNext]_vars

\* The chat view with the workflows tab and the callback on window
WindowInit == ch_Init /\ wa_Init /\ ck_Init /\ fm_Idle /\ ar_Idle /\ rt_Init /\ nz_Idle /\ dv_Init /\ mp_Idle /\ hl_Idle

WindowNext ==
  \/ (\E tab \in WindowTabs : wn_setActiveTab(tab))
       /\ UNCHANGED <<ck_vars, fm_vars, ar_vars, rt_vars, nz_vars, mp_vars, hl_vars>>
  \/ handleQuickAction /\ UNCHANGED <<ck_vars, fm_vars, ar_vars, rt_vars, nz_vars, dv_vars, mp_vars, hl_vars, wa_vars>>
  \/ submitButton /\ UNCHANGED <<ck_vars, fm_vars, ar_vars, rt_vars, nz_vars, dv_vars, mp_vars, hl_vars, wa_vars>>
  \/ dv_handleQuickAction /\ UNCHANGED <<ck_vars, fm_vars, ar_vars, rt_vars, nz_vars, mp_vars, hl_vars, wa_vars>>
  \/ setActiveSection /\ UNCHANGED <<ck_vars, fm_vars, ar_vars, rt_vars, nz_vars, ch_vars, dv_vars, mp_vars, hl_vars>>
  \/ wa_fetchSettles /\ UNCHANGED <<ck_vars, fm_vars, ar_vars, rt_vars, nz_vars, ch_vars, dv_vars, mp_vars, hl_vars>>
  \/ wn_chatResponse /\ UNCHANGED <<ck_vars, fm_vars, ar_vars, rt_vars, nz_vars, dv_vars, mp_vars, hl_vars>>
  \/ timerFires /\ UNCHANGED <<ck_vars, fm_vars, ar_vars, rt_vars, nz_vars, dv_vars, mp_vars, hl_vars>>

SpecWindow == WindowInit /\ [][WindowNext]_vars

\* The browser settles every fetch of the chat and runs every timer
wn_chatSettles == wn_chatResponse /\ UNCHANGED <<ck_vars, fm_vars, ar_vars, rt_vars, nz_vars, dv_vars, mp_vars, hl_vars>>
wn_timerRuns == timerFires /\ UNCHANGED <<ck_vars, fm_vars, ar_vars, rt_vars, nz_vars, dv_vars, mp_vars, hl_vars>>

FairSpecWindow ==
  WindowInit /\ [][WindowNext]_vars /\ WF_vars(wn_chatSettles) /\ WF_vars(wn_timerRuns)

\* The chat pane under a clock that advances
ClockInit ==
  ch_Init /\ ck_Init /\ rt_Init /\ nz_Idle /\ dv_Init /\ mp_Idle /\ hl_Idle
  /\ wa_Init /\ fm_Idle /\ ar_Idle

ClockNext ==
  \/ tick /\ UNCHANGED <<ck_vars, fm_vars, ar_vars, rt_vars, nz_vars, dv_vars, mp_vars, hl_vars, wa_vars>>
  \/ handleQuickAction
       /\ UNCHANGED <<ck_vars, fm_vars, ar_vars, rt_vars, nz_vars, dv_vars, mp_vars, hl_vars, wa_vars>>
  \/ submitButton
       /\ UNCHANGED <<ck_vars, fm_vars, ar_vars, rt_vars, nz_vars, dv_vars, mp_vars, hl_vars, wa_vars>>
  \/ handleKeyDown
       /\ UNCHANGED <<ck_vars, fm_vars, ar_vars, rt_vars, nz_vars, dv_vars, mp_vars, hl_vars, wa_vars>>
  \/ ck_chatResponse
       /\ UNCHANGED <<fm_vars, ar_vars, rt_vars, nz_vars, dv_vars, mp_vars, hl_vars, wa_vars>>
  \/ ck_chatFailure
       /\ UNCHANGED <<fm_vars, ar_vars, rt_vars, nz_vars, dv_vars, mp_vars, hl_vars, wa_vars>>

SpecClock == ClockInit /\ [][ClockNext]_vars

\* One of the identifier forms, from its mount
FormsInit ==
  fm_Init /\ ar_Idle /\ ck_Init /\ ch_Init /\ rt_Init /\ nz_Idle /\ dv_Init
  /\ mp_Idle /\ hl_Idle /\ wa_Init

FormsOthers ==
  <<ck_vars, ar_vars, rt_vars, nz_vars, ch_vars, dv_vars, mp_vars, hl_vars,
    wa_vars>>

FormsNext ==
  \/ setOrganizationId /\ UNCHANGED FormsOthers
  \/ setStuckCountOrgId /\ UNCHANGED FormsOthers
  \/ setContactInput /\ UNCHANGED FormsOthers
  \/ setBatchContacts /\ UNCHANGED FormsOthers
  \/ handleFetchAnalytics /\ UNCHANGED FormsOthers
  \/ fetchAutomationLogs /\ UNCHANGED FormsOthers
  \/ fetchStuckContactCount /\ UNCHANGED FormsOthers
  \/ analyzeStuckContact /\ UNCHANGED FormsOthers
  \/ analyzeBatchContacts /\ UNCHANGED FormsOthers
  \/ fm_settles /\ UNCHANGED FormsOthers

SpecForms == FormsInit /\ [][FormsNext]_vars

\* One call of apiRequest
RequestInit ==
  ar_Init /\ fm_Idle /\ ck_Init /\ ch_Init /\ rt_Init /\ nz_Idle /\ dv_Init
  /\ mp_Idle /\ hl_Idle /\ wa_Init

RequestOthers ==
  <<ck_vars, fm_vars, rt_vars, nz_vars, ch_vars, dv_vars, mp_vars, hl_vars,
    wa_vars>>

RequestNext ==
  \/ apiRequest /\ UNCHANGED RequestOthers
  \/ timeoutFires /\ UNCHANGED RequestOthers
  \/ fetchResolves /\ UNCHANGED RequestOthers
  \/ fetchRejects /\ UNCHANGED RequestOthers
  \/ jsonSettles /\ UNCHANGED RequestOthers

SpecRequest == RequestInit /\ [][RequestNext]_vars

(***************************************************************************)
(* Claims.                                                                 *)
(***************************************************************************)

\* The branches of the normalizer by priority: (a) formattedMessage,
\* (b) event trends, (c) event analytics, (d) answer.summary, (e) workflow
\* execution statistics, (f) summary, (g) fallback
BranchesMatching(data) ==
  {i \in 1..7 :
     CASE i = 1 -> MatchFormatted(data)
       [] i = 2 -> MatchTrends(data)
       [] i = 3 -> MatchAnalytics(data)
       [] i = 4 -> MatchAnswer(data)
       [] i = 5 -> MatchWorkflowStats(data)
       [] i = 6 -> MatchSummary(data)
       [] OTHER -> TRUE}

BranchOutput(i, data) ==
  CASE i = 1 -> Field(data.results, "formattedMessage")
    [] i = 2 -> TrendsContent(data)
    [] i = 3 -> AnalyticsContent(data)
    [] i = 4 -> AnswerContent(data)
    [] i = 5 -> WorkflowStatsContent(data)
    [] i = 6 -> SummaryContent(data)
    [] OTHER -> FallbackContent(data)

\* C1: for every payload with success true, on both submit paths, the
\* appended narrative is the output of the lowest-ranked branch whose
\* condition matches and of no other branch (formattedMessage verbatim when
\* present, whatever else is present); when that branch throws on a
\* malformed entry the catch block's connection error is shown and still no
\* later branch contributes.
C1_FirstMatchWins ==
  (nz_handler # "none" /\ Truthy(nz_data.success)) =>
    LET M == BranchesMatching(nz_data)
        first == CHOOSE i \in M : \A j \in M : i <= j
        out == BranchOutput(first, nz_data)
    IN IF out.t = "throw"
       THEN /\ nz_message.status = "error"
            /\ nz_message.content = Str(<<"[x] **Connection Error**: ">> \o out.v)
       ELSE /\ nz_message.status = "success"
            /\ nz_message.content = out

\* C1 witness: formattedMessage, analytics and summary all present, and the
\* narrative is the formattedMessage verbatim
C1_Witness ==
  /\ nz_handler = "handleSubmitMessage"
  /\ Truthy(nz_data.success)
  /\ MatchFormatted(nz_data) /\ MatchAnalytics(nz_data) /\ MatchSummary(nz_data)
  /\ nz_message.content = Str(<<"formatted">>)

\* Whether a JSON request body carries a usable message: a non-empty string
HasMessage(body) ==
  /\ body.t = "object"
  /\ body.v.message.t = "string"
  /\ body.v.message.v # << >>

\* C9: a request (with a JSON body) whose message is missing, empty or not
\* a string is answered 400 {success: false, error: 'Message is required'}
\* without any call to the backend; only a non-empty string is forwarded.
C9_MessageRequired ==
  /\ (rt_pc = "responded" /\ rt_body # NotJson /\ ~HasMessage(rt_body)) =>
       /\ rt_response = [status |-> 400,
                         body |-> [success |-> FALSE,
                                   error |-> <<"Message is required">>]]
       /\ rt_forwarded = << >>
  /\ rt_forwarded # << >> => HasMessage(rt_body)

\* C10: a 2xx answer of the backend with a JSON body is relayed with the
\* backend's status code and the body unchanged.
C10_RelaysStatusAndBody ==
  (rt_pc = "responded" /\ rt_backend # Undef /\ Ok(rt_backend.status)
     /\ rt_backend.body # NotJson) =>
    rt_response = [status |-> rt_backend.status, body |-> rt_backend.body]

\* C5: at most one /api/chat request of the chat view is in flight at any
\* time, whichever submit path is used while a request is outstanding.
C5_AtMostOneInFlight == Cardinality(inflight) <= 1

\* C6: isLoading is true exactly while a chat request is in flight.
C6_LoadingIffInFlight == isLoading <=> (inflight # {})

\* C7: conversationId stays null until a response carries a conversation_id,
\* never changes once set, and every request started after it is set
\* carries it.
C7_ConversationIdStable ==
  [][/\ conversationId # Null => conversationId' = conversationId
     /\ \A r \in inflight' \ inflight :
          conversationId # Null => r.conversation_id = conversationId]_vars

UserMessagesOf(rid) ==
  {i \in DOMAIN messages : messages[i].type = "user" /\ messages[i].req = rid}

RepliesTo(rid) ==
  {i \in DOMAIN messages : messages[i].type = "ai" /\ messages[i].req = rid}

\* Each started request has its user message in the list, has no reply
\* while it is in flight and one reply, placed after its user message, once
\* it has settled.
OneReplyPerTurn ==
  \A rid \in 1..issued :
    /\ Cardinality(UserMessagesOf(rid)) = 1
    /\ IF \E r \in inflight : r.rid = rid
       THEN RepliesTo(rid) = {}
       ELSE /\ Cardinality(RepliesTo(rid)) = 1
            /\ \A i \in RepliesTo(rid), u \in UserMessagesOf(rid) :
                 u < i /\ messages[i].status \in {"success", "error"}

\* C8: the message list only grows at its end (no message is removed or
\* changed), a submitted turn's user message is in the list as soon as the
\* request is started, and every user message is eventually followed by
\* exactly one AI message with status success or error.
C8_AppendOnlyOneReply ==
  /\ [][/\ Len(messages') >= Len(messages)
        /\ SubSeq(messages', 1, Len(messages)) = messages]_vars
  /\ []OneReplyPerTurn
  /\ \A rid \in 1..MaxRequests :
       (UserMessagesOf(rid) # {}) ~> (Cardinality(RepliesTo(rid)) = 1)

\* C8 witness: two turns were submitted while the first was still
\* unanswered, and each has received its reply
C8_Witness ==
  /\ Len(messages) = 5
  /\ messages[2].type = "user" /\ messages[3].type = "user"
  /\ messages[4].type = "ai" /\ messages[5].type = "ai"
  /\ messages[4].req # messages[5].req
  /\ inflight = {}

\* The number a total_events value stands for, 0 when it is absent
NumberOf(x) ==
  IF x.t = "number" THEN x.v
  ELSE IF x.t = "string" THEN DigitsValue(x.v, 0) ELSE 0

\* The record C2 expects of an entry
ExpectedRecord(entry) ==
  [name |-> IF entry.event_name = Undef THEN <<"Unknown Event">>
            ELSE ReplaceUnderscores(entry.event_name.v),
   count |-> NumberOf(entry.total_events),
   source |-> IF entry.event_source = Undef THEN <<"unknown">>
              ELSE entry.event_source.v,
   uniqueContacts |-> IF entry.unique_contacts = Undef THEN Num(0)
                      ELSE entry.unique_contacts,
   firstEvent |-> IF entry.first_event = Undef THEN Null
                  ELSE Date(entry.first_event),
   lastEvent |-> IF entry.last_event = Undef THEN Null
                 ELSE Date(entry.last_event)]

Occurrences(seq, x) == Cardinality({i \in DOMAIN seq : seq[i] = x})

Answered == dv_last.qid > 0 /\ dv_last.data # NotJson

\* handleSubmit has handed the answer to one of the three mappers
MapperRan(data) ==
  /\ Truthy(data.success)
  /\ IF MatchAnalytics(data) THEN BreakdownContent(data).t # "throw"
     ELSE IF MatchFormatted(data)
     THEN Truthy(Field(data.results, "analyticsData"))
     ELSE TRUE

\* The mapper has found a record in the answer
RecordsFound(data, q) ==
  LET call == handleSubmitOutcome(data, q).call IN
  call.set /\ call.value # Null

\* C3: whichever of the three mappers the answer is handed to, when no valid
\* record results from it, visualizationData is null and the view shows its
\* placeholder instead of a chart; visualizationData never holds an empty
\* list.
C3_NoRecordsGiveNull ==
  /\ visualizationData # Null => Len(visualizationData.data.events) > 0
  /\ (Answered /\ MapperRan(dv_last.data)
     /\ ~RecordsFound(dv_last.data, dv_last.query))
    => (visualizationData = Null /\ generateChartData = Null)

\* C4: once a query has completed, visualizationData is null or was set
\* from the response of that query, never from an earlier one.
C4_LatestQueryOnly ==
  dv_last.qid > 0 => (visualizationData = Null \/ dv_dataFrom = dv_last.qid)


\* C11: on failure the route answers the envelope {success: false, error,
\* details}: with the backend's own status whenever the backend answered
\* non-2xx, and with status 500, once the request was forwarded, only when
\* the backend could not be reached.
C11_ErrorEnvelope ==
  rt_pc = "responded" =>
    /\ (rt_backend # Undef /\ rt_backend.status # 0 /\ ~Ok(rt_backend.status)) =>
         /\ rt_response.status = rt_backend.status
         /\ rt_response.body.success = FALSE
    /\ (rt_backend # Undef /\ rt_backend.status = 0) =>
         /\ rt_response.status = 500
         /\ rt_response.body.success = FALSE
    /\ (rt_forwarded # << >> /\ rt_response.status = 500) =>
         rt_backend.status \in {0, 500}

\* C12: for every payload with success false, on both submit paths, the
\* appended AI message is the error line followed by the payload's error
\* field, with status 'error', whatever success-branch fields the payload
\* carries.
C12_ErrorLine ==
  (nz_handler # "none" /\ nz_data.success = Bool(FALSE)) =>
    /\ nz_message.type = "ai"
    /\ nz_message.status = "error"
    /\ nz_message.content = Str(<<"[x] **Error**: ">> \o nz_data.error.v)

\* C12 witness: an error payload that also carries a formattedMessage and a
\* summary has been turned into the error line
C12_Witness ==
  /\ nz_handler = "handleSubmit"
  /\ nz_data.success = Bool(FALSE)
  /\ MatchFormatted(nz_data) /\ MatchSummary(nz_data)
  /\ nz_message.content = Str(<<"[x] **Error**: ", "Backend timeout">>)
  /\ nz_message.status = "error"

\* The records of visualizationData a chart shows, by their labels
ShownInChart ==
  {i \in DOMAIN visualizationData.data.events :
     \E k \in DOMAIN generateChartData.labels :
       generateChartData.labels[k] = visualizationData.data.events[i].name}

\* C13: in every state with data, a pie chart shows the 15 records with
\* the highest counts and a bar or line chart the 20 with the highest counts
\* (all records when there are fewer), and the table lists every record.
C13_ChartCaps ==
  visualizationData # Null =>
    LET events == visualizationData.data.events
        cap == IF activeChart = "pie" THEN 15 ELSE 20
    IN /\ Len(tableRows) = Len(events)
       /\ \A i \in DOMAIN events : tableRows[i].name = events[i].name
       /\ activeChart # "table" =>
            /\ Cardinality(ShownInChart)
                 = (IF Len(events) < cap THEN Len(events) ELSE cap)
            /\ \A i \in ShownInChart, j \in DOMAIN events \ ShownInChart :
                 events[i].count >= events[j].count

\* C14: every record of visualizationData, in every reachable state and
\* whichever of the three mappers stored it, has an integer count greater than
\* zero: an entry whose count is zero, negative, missing or unparseable is
\* dropped.
C14_PositiveCounts ==
  visualizationData # Null =>
    \A i \in DOMAIN visualizationData.data.events :
      /\ visualizationData.data.events[i].count \in Nat
      /\ visualizationData.data.events[i].count > 0

\* The structured mapper stored three of the seven entries it was given: the
\* entries with the counts 0, -3, 'n/a' and undefined are gone and '12.7' is
\* stored as 12
C14_Witness ==
  /\ Answered
  /\ MatchFormatted(dv_last.data)
  /\ Field(dv_last.data.results, "analyticsData") = SampleAnalyticsData
  /\ dv_dataFrom = dv_last.qid
  /\ sortOrder = "desc"
  /\ visualizationData # Null
  /\ [i \in DOMAIN visualizationData.data.events |->
        <<visualizationData.data.events[i].name,
          visualizationData.data.events[i].count>>]
       = << <<(<<"rated">>), 12>>, <<(<<"clicked">>), 9>>, <<(<<"opened">>), 4>> >>

\* a ?? b
Nullish(a, b) == IF a \in {Undef, Null} THEN b ELSE a

\* The name and the count C15 gives the record of an analyticsData entry
NullishRecord(entry, queryType) ==
  IF queryType = Str(<<"source_analytics">>)
  THEN [name |-> IF Truthy(entry.source) THEN ReplaceUnderscores(entry.source.v)
                 ELSE <<"Unknown Source">>,
        count |-> NumberOf(Nullish(entry.total_events, entry.count))]
  ELSE [name |-> LET n == Nullish(entry.event_name, entry.name) IN
                 IF n.t = "string" THEN ReplaceUnderscores(n.v) ELSE <<"Unknown">>,
        count |-> NumberOf(Nullish(entry.event_count, entry.count))]

\* C15: parseStructuredApiResponse selects the fields of each analyticsData
\* entry by nullish coalescing: with queryType 'source_analytics' the count
\* is total_events when total_events is defined (even 0) and count otherwise;
\* with any other queryType the name is event_name when defined and name
\* otherwise, and the count is event_count when defined (even 0) and count
\* otherwise.  The stored records are those of the entries so mapped whose
\* count is above zero.
C15_NullishSelection ==
  (/\ mp_output # Pending
   /\ mp_results.t = "object"
   /\ Truthy(mp_results.v.formattedMessage)
   /\ mp_results.v.analyticsData.t = "array") =>
    LET entries == mp_results.v.analyticsData.v
        mapped == [i \in DOMAIN entries |->
                     NullishRecord(entries[i].v, mp_results.v.queryType)]
        expected == SelectSeq(mapped, LAMBDA r : r.count > 0)
    IN IF expected = << >> THEN mp_output = Null
       ELSE /\ mp_output # Null
            /\ LET events == [i \in DOMAIN mp_output.data.events |->
                                [name |-> mp_output.data.events[i].name,
                                 count |-> mp_output.data.events[i].count]]
               IN /\ Len(events) = Len(expected)
                  /\ \A i \in DOMAIN expected :
                       Occurrences(events, expected[i])
                         = Occurrences(expected, expected[i])

\* The records the loop over the lines of a narration collects, before the
\* duplicates are removed
Narrated(text) ==
  LET scan == ScanLines(Split(text)) IN
  IF Complete(scan.currentEvent) THEN Append(scan.events, scan.currentEvent)
  ELSE scan.events

\* C16: after parseApiResponseForVisualization no two stored records have the
\* same name, and the record kept for a name that the narration repeats
\* carries the highest of its counts, in whatever order they occur.
C16_UniqueNamesMaxCount ==
  (/\ mp_output # Pending
   /\ mp_results.t = "string"
   /\ mp_output.set
   /\ mp_output.value # Null) =>
    LET stored == mp_output.value.data.events
        narrated == Narrated(mp_results.v)
    IN /\ \A i, j \in DOMAIN stored :
            i # j => stored[i].name # stored[j].name
       /\ \A i \in DOMAIN narrated :
            \E k \in DOMAIN stored :
              /\ stored[k].name = narrated[i].name
              /\ stored[k].count >= narrated[i].count
       /\ \A k \in DOMAIN stored :
            \E i \in DOMAIN narrated :
              /\ narrated[i].name = stored[k].name
              /\ narrated[i].count = stored[k].count

\* 'added_to_lists' with 100 events, then 'added to lists' with 150: one
\* record, with 150
C16_Witness ==
  /\ mp_results =
       Str(<<"Found", " ", "events", "\n", "\n">>
           \o NarrationBlock(<<"added", "_", "to", "_", "lists">>, <<"1", "0", "0">>)
           \o NarrationBlock(<<"added", " ", "to", " ", "lists">>, <<"1", "5", "0">>))
  /\ mp_output # Pending
  /\ mp_output.set
  /\ mp_output.value # Null
  /\ Len(mp_output.value.data.events) = 1
  /\ mp_output.value.data.events[1].name = <<"added", " ", "to", " ", "lists">>
  /\ mp_output.value.data.events[1].count = 150

\* C17: GET /health answers with 200 or with 503 and nothing else: 200
\* exactly when validateConfiguration().isValid is true and the upstream check
\* reports the API accessible, 503 otherwise, an exception inside the handler
\* included.
C17_HealthStatus ==
  hl_pc = "responded" =>
    /\ hl_response.status \in {200, 503}
    /\ hl_response.status = 200 <=>
         /\ hl_response.body.status = "healthy"
         /\ validateConfiguration(hl_env).isValid
         /\ hl_upstream.t = "number"
         /\ hl_upstream.v >= 200 /\ hl_upstream.v < 400

\* A production configuration with its Sentry DSN and without debug mode, and
\* an upstream that answered 204: 200
C17_Witness ==
  /\ hl_pc = "responded"
  /\ hl_env.APP_ENV = "production"
  /\ hl_upstream = Num(204)
  /\ hl_response.body.status = "healthy"
  /\ hl_response.body.configuration.isValid
  /\ hl_response.status = 200

\* C18: whenever a response takes the get_event_analytics branch of the
\* normalizer while window.handleEventAnalyticsResponse is registered, the
\* callback is afterwards invoked with that payload, once and no more, on
\* the path of handleSubmit and on the path of handleSubmitMessage alike.
C18_CallbackInvoked ==
  /\ [](Len(wa_calls) <= Len(wa_due))
  /\ \A n \in 1..MaxRequests :
       (Len(wa_due) >= n) ~> (Len(wa_calls) >= n /\ wa_calls[n] = wa_due[n])

\* C19: the state of WorkflowAnalytics (its loading flag, its error, its
\* data) is written by the requests of WorkflowAnalytics alone: no response to
\* a request of another component writes it.
C19_OwnStateOnly ==
  wa_writer \in {"none", "WorkflowAnalytics"}

\* No branch of the normalizer's chain matches data
NoBranchMatches(data) ==
  /\ ~MatchFormatted(data) /\ ~MatchTrends(data) /\ ~MatchAnalytics(data)
  /\ ~MatchAnswer(data) /\ ~MatchWorkflowStats(data) /\ ~MatchSummary(data)

\* A content React renders as nothing
EmptyContent(content) == content \in {Undef, Null, Str(<< >>)}

\* C20: when success is true, no branch of the normalizer matches and none
\* of result, response and message is defined, the submit does not end in its
\* catch block: the one message it appends is an AI message of status
\* 'success' whose content is empty.
C20_EmptyReply ==
  (/\ nz_handler # "none"
   /\ nz_data.success = Bool(TRUE)
   /\ NoBranchMatches(nz_data)
   /\ nz_data.result = Undef /\ nz_data.response = Undef /\ nz_data.message = Undef) =>
    /\ nz_message.type = "ai"
    /\ nz_message.status = "success"
    /\ EmptyContent(nz_message.content)

\* handleSubmitMessage on {success: true} with a results object that holds
\* nothing the chain knows: one AI message with the content undefined
C20_Witness ==
  /\ nz_handler = "handleSubmitMessage"
  /\ nz_data.success = Bool(TRUE)
  /\ nz_data.results # Undef
  /\ NoBranchMatches(nz_data)
  /\ nz_data.result = Undef /\ nz_data.response = Undef /\ nz_data.message = Undef
  /\ nz_message = [id |-> <<"1">>, content |-> Undef, type |-> "ai",
                   status |-> "success", req |-> 0]

\* The first of result, response and message that is defined
FirstDefined(data) ==
  IF data.result # Undef THEN data.result
  ELSE IF data.response # Undef THEN data.response
  ELSE data.message

\* C21: when success is true and no earlier branch matches, the narrative
\* is the first of result, response and message, in that order, that is
\* defined; a field that is present but empty (result = '') counts as defined.
C21_FirstDefinedFallback ==
  (nz_handler # "none" /\ nz_data.success = Bool(TRUE) /\ NoBranchMatches(nz_data)) =>
    nz_message.content = FirstDefined(nz_data)

\* C22: DataVisualization.handleSubmit shows a successful payload that
\* carries results.formattedMessage as that formattedMessage verbatim, also
\* when tool_executed is 'get_event_analytics' and results.analytics is
\* present: the answer panel holds what the chat view's chain yields for the
\* same payload.
C22_FormattedFirst ==
  (/\ Answered
   /\ Truthy(dv_last.data.success)
   /\ MatchFormatted(dv_last.data)
   /\ apiResponse # Str(<< >>)) =>
    /\ apiResponse = Field(dv_last.data.results, "formattedMessage")
    /\ apiResponse = responseContent(dv_last.data)

\* The text a narrative gives after a label
TextAfter(content, label) ==
  LET at == CHOOSE i \in DOMAIN content : content[i] = label IN content[at + 1]

\* C23: for every event-analytics payload, the organization id and the
\* timeframe the normalizer's narrative names are those of the mapper's
\* output for the same payload (its organization scope, its timeframe field),
\* also when results.timeframe or results.organization_id is absent.
C23_SameOrganizationAndTimeframe ==
  (/\ nz_handler # "none"
   /\ nz_data.success = Bool(TRUE)
   /\ ~MatchFormatted(nz_data) /\ ~MatchTrends(nz_data) /\ MatchAnalytics(nz_data)
   /\ nz_message.status = "success"
   /\ parseEventAnalyticsResponse(nz_data.results) # Null) =>
    LET mapped == parseEventAnalyticsResponse(nz_data.results)
        narrative == nz_message.content.v
    IN /\ <<TextAfter(narrative, "- Timeframe: ")>> = mapped.timeframe
       /\ (TextAfter(narrative, "- Organization ID: ") # "undefined")
            <=> (mapped.organizationScope = "specific")

\* C28: in every state of DataVisualization with data the sortOrder flag
\* agrees with the order of visualizationData.data.events: 'desc' when the
\* counts do not increase, 'asc' when they do not decrease, also after a new
\* query has replaced the data following a sort click.
C28_SortOrderAgrees ==
  visualizationData # Null =>
    LET events == visualizationData.data.events IN
    \A i \in 1..(Len(events) - 1) :
      IF sortOrder = "desc" THEN events[i].count >= events[i + 1].count
      ELSE events[i].count <= events[i + 1].count

\* C26: the deferred chart callback is never called after it has been
\* unregistered: when WorkflowAnalytics unmounts between the scheduling of the
\* 100 ms timer and its firing, the timer does not call a missing function.
C26_NoCallOfMissingCallback ==
  wa_uncaught = << >>

\* C27: once handleEventAnalyticsResponse has accepted a response,
\* eventAnalyticsData keeps that response's results while WorkflowAnalytics is
\* shown, until a fetch the user triggered answers: the switch of
\* activeSection to 'events' starts no fetch whose result replaces them.
C27_PushedDataKept ==
  [][(/\ wa_writer = "ChatInterface"
      /\ activeTab' = "workflows"
      /\ wa_eventAnalyticsData' # wa_eventAnalyticsData)
     => \/ \E r \in wa_inflight : r.by = "user" /\ r \notin wa_inflight'
        \/ Len(wa_calls') > Len(wa_calls)]_vars

\* C29: in every reachable state of the chat view, whatever the timing of
\* submissions and responses, no two messages of the list have the same id.
C29_DistinctIds ==
  \A i, j \in DOMAIN messages : i # j => messages[i].id # messages[j].id

\* The message that answers request rid
Reply(rid) ==
  messages[CHOOSE i \in DOMAIN messages :
             messages[i].type = "ai" /\ messages[i].req = rid]

MissingIdentifier ==
  \/ fm_last.contacts = {}
  \/ \E c \in fm_last.contacts : \E i \in DOMAIN c : Trim(c[i]) = << >>

\* C25: a fetch handler of the three identifier forms that is run with a
\* required identifier missing or blank sends no request, sets the view's
\* error message and leaves its loading flag false.
C25_NoRequestWithoutIdentifier ==
  (fm_last.handler # "none" /\ MissingIdentifier) =>
    /\ ~fm_last.requested
    /\ LastError # Null
    /\ ~LastLoading

\* C30: a call of apiRequest that fails throws an ApiError whose status
\* tells the cause: the backend's status for a non-2xx response with a JSON
\* body, 408 for an abort by the timeout timer, 500 for anything else; the
\* call makes one attempt and never ends with its timer still pending.
C30_ClassifiedFailure ==
  /\ ar_attempts <= 1
  /\ ar_pc \in {"returned", "thrown"} => (ar_attempts = 1 /\ ar_timer # "armed")
  /\ ar_pc = "thrown" =>
       /\ ar_outcome.t = "ApiError"
       /\ ar_outcome.status =
            CASE ar_cause = "status" -> ar_response.status
              [] ar_cause = "timeout" -> 408
              [] OTHER -> 500

====
